---- MODULE Spec2Model ----
(***************************************************************************)
(* Authorization and submission/evaluation workflow of lab-companion.     *)
(*                                                                         *)
(* The datastore is the set of tables of the first migration, guarded by  *)
(* its row-level-security policies, its UNIQUE and CHECK constraints and  *)
(* its foreign keys with their cascades, together with the trigger that   *)
(* creates a profile for each new identity.  The clients are the React    *)
(* handlers submitCode (CodeEditorPage), submitEvaluation                 *)
(* (FacultyEvaluate), handleAssign / handleRemove / handleBulkEnroll      *)
(* (AdminPanel) and handleSubmit (SubjectEnrollment); each await of a     *)
(* handler is one atomic datastore statement, so a handler is a short     *)
(* sequence of steps that interleave with the steps of the other browser  *)
(* tabs.  The tables that have no handler and the statements a caller may *)
(* send on its own are single statements checked against the policies    *)
(* and constraints.  The execute-code function is a handler of its own,   *)
(* without state between requests.                                        *)
(*                                                                         *)
(* Of each row the model keeps the keys, the foreign keys and the columns *)
(* a policy, a constraint or a handler's branch reads (role, department,  *)
(* status, marks, feedback); timestamps, names and the submitted text are *)
(* not kept, nor is display-only component state (toasts, lists,          *)
(* spinners).  The initial state is a deployment in use: an admin, two    *)
(* faculty members and a student have signed up, the seeded subjects are  *)
(* in place and the student has enrolled in them.                         *)
(***************************************************************************)
EXTENDS Integers, FiniteSets, Sequences, TLC

\* ------------------------------------------------------------------ bounds
MaxSubmissionIds == 2
MaxEvaluationIds == 2
MaxEnrollmentIds == 4

\* --------------------------------------------------------------- universes
Admins == {"adm"}
Faculty == {"fac1", "fac2"}
Students == {"stu1"}
Users == Admins \cup Faculty \cup Students
\* Identities the identity provider may still create.
NewUsers == {"stu2", "stu3"}
Identities == Users \cup NewUsers

app_role == {"admin", "faculty", "student"}
Subjects == {"CS101", "CS102"}
Departments == {"CSE", "IT", "AIDS"}
StatusValues == {"draft", "submitted", "evaluated"}

NoId == 0
NoSubject == "-"
NoUser == "-"
Null == "null"

ExperimentIds == {1}
SubmissionIds == 1..MaxSubmissionIds
EvaluationIds == 1..MaxEvaluationIds
EnrollmentIds == 1..MaxEnrollmentIds

MarksInputs == {-1, 0, 100, 101}
\* raw_user_meta_data ->> 'role' and ->> 'department': absent, or a text.
RoleInputs == {Null, "student", "faculty", "admin", "teacher"}
DepartmentInputs == {Null, "CSE", "IT", "AIDS", "EEE", ""}
FeedbackInputs == {"", "Good"}
\* Editor contents and the editor's language choices a submit call may carry.
CodeTexts == {"v1", "v2"}
EditorLanguages == {"python", "java"}

\* The three reads MySubjects starts together.
ParallelReads == {"subjects", "experiments", "submissions"}

CodeTabs == {"ce1", "ce2"}
EvalTabs == {"ev1", "ev2"}

\* ------------------------------------------------ execute-code: values
\* A value of the request body: undefined (the key is absent), null, a
\* number or a string; a string is the sequence of its characters.
Undefined == [type |-> "undefined", chars |-> <<>>, n |-> 0]
JsonNull == [type |-> "null", chars |-> <<>>, n |-> 0]
Num(n) == [type |-> "number", chars |-> <<>>, n |-> n]
Str(chars) == [type |-> "string", chars |-> chars, n |-> 0]

\* !v
Falsy(v) ==
    \/ v.type \in {"undefined", "null"}
    \/ v.type = "string" /\ v.chars = <<>>
    \/ v.type = "number" /\ v.n = 0

Uppers == <<"A", "B", "C", "D", "E", "F", "G", "H", "I", "J", "K", "L", "M", "N", "O", "P", "Q", "R", "S", "T", "U", "V", "W", "X", "Y", "Z">>
Lowers == <<"a", "b", "c", "d", "e", "f", "g", "h", "i", "j", "k", "l", "m", "n", "o", "p", "q", "r", "s", "t", "u", "v", "w", "x", "y", "z">>

\* String.prototype.toLowerCase
toLowerCase(chars) ==
    [i \in 1..Len(chars) |->
        IF \E k \in 1..Len(Uppers) : Uppers[k] = chars[i]
        THEN Lowers[CHOOSE k \in 1..Len(Uppers) : Uppers[k] = chars[i]]
        ELSE chars[i]]

\* The own keys of LANGUAGE_MAP.
LANGUAGE_MAP == {<<"p", "y", "t", "h", "o", "n">>,
                 <<"j", "a", "v", "a", "s", "c", "r", "i", "p", "t">>,
                 <<"j", "a", "v", "a">>,
                 <<"c">>,
                 <<"c", "p", "p">>,
                 <<"c", "+", "+">>}

\* LANGUAGE_MAP is an object literal: a key it does not own is looked up on
\* Object.prototype.
ObjectPrototypeKeys == {<<"c", "o", "n", "s", "t", "r", "u", "c", "t", "o", "r">>,
                        <<"_", "_", "p", "r", "o", "t", "o", "_", "_">>,
                        <<"t", "o", "S", "t", "r", "i", "n", "g">>,
                        <<"v", "a", "l", "u", "e", "O", "f">>,
                        <<"h", "a", "s", "O", "w", "n", "P", "r", "o", "p", "e", "r", "t", "y">>}

\* LANGUAGE_MAP[key]: the entry, an inherited member, or undefined.
Lookup(key) ==
    IF key \in LANGUAGE_MAP THEN "config"
    ELSE IF key \in ObjectPrototypeKeys THEN "inherited"
    ELSE "undefined"

\* langConfig.language: the language member of the entry; an inherited
\* member of Object.prototype has none.
LangConfigLanguage(key) ==
    IF key = <<"p", "y", "t", "h", "o", "n">> THEN "python"
    ELSE IF key = <<"j", "a", "v", "a", "s", "c", "r", "i", "p", "t">> THEN "javascript"
    ELSE IF key = <<"j", "a", "v", "a">> THEN "java"
    ELSE IF key = <<"c">> THEN "c"
    ELSE IF key \in {<<"c", "p", "p">>, <<"c", "+", "+">>} THEN "c++"
    ELSE "undefined"

UpstreamLanguages == {"python", "javascript", "java", "c", "c++", "undefined", "-"}

\* The body of an upstream request that was not sent.
NoRequest == [language |-> "-", file |-> "-"]

CodeInputs == {Undefined, JsonNull, Str(<<>>), Str(<<"x">>)}
LanguageInputs ==
    {Undefined, JsonNull, Num(5), Str(<<>>)} \cup
    {Str(k) : k \in LANGUAGE_MAP \cup ObjectPrototypeKeys} \cup
    {Str(<<"P", "y", "t", "h", "o", "n">>),
     Str(<<"J", "A", "V", "A">>),
     Str(<<"r", "u", "b", "y">>)}
StdinInputs == {Undefined, Str(<<"1">>)}
Methods == {"OPTIONS", "POST"}
BodyKinds == {"object", "invalid"}

VARIABLES
    auth_users,              \* ids of auth.users
    subjects,                \* ids of subjects
    student_subjects,        \* rows [id, student_id, subject_id]
    exec,                    \* execute-code: the request in hand and its answer
    profiles,                \* rows [role, department], by id
    faculty_subjects,        \* rows [faculty_id, subject_id]
    experiments,             \* rows [id, subject_id]
    experiment_submissions,  \* rows [id, experiment_id, student_id, code, language, status]
    evaluations,             \* rows [id, submission_id, faculty_id, marks, feedback]
    codeTab,                 \* CodeEditorPage instances
    evalTab,                 \* FacultyEvaluate instances
    mySubjects,              \* the MySubjects page of the student stu1
    lastOp                   \* the last statement or handler step and its result

vars == <<auth_users, subjects, student_subjects, exec, profiles, faculty_subjects,
          experiments, experiment_submissions, evaluations, codeTab, evalTab,
          mySubjects, lastOp>>

\* The shape of the state: the columns of each table that the policies, the
\* constraints and the handlers read or write, and the handlers' locals.
TypeOK ==
    /\ auth_users \subseteq Identities
    /\ subjects \subseteq Subjects
    /\ student_subjects \subseteq
          [id : EnrollmentIds, student_id : Identities, subject_id : Subjects]
    /\ DOMAIN profiles \subseteq Identities
    /\ \A u \in DOMAIN profiles :
          profiles[u] \in [role : app_role, department : Departments \cup {Null}]
    /\ faculty_subjects \subseteq [faculty_id : Users, subject_id : Subjects]
    /\ experiments \subseteq [id : ExperimentIds, subject_id : Subjects]
    /\ experiment_submissions \subseteq
          [id : SubmissionIds, experiment_id : ExperimentIds, student_id : Identities,
           code : CodeTexts \cup {Null}, language : EditorLanguages \cup {Null},
           status : StatusValues]
    /\ evaluations \subseteq
          [id : EvaluationIds, submission_id : SubmissionIds, faculty_id : Users,
           marks : 0..100, feedback : FeedbackInputs \ {""}]
    /\ exec \in [pc : {"idle", "pending", "done"}, method : Methods,
                 body : BodyKinds, code : CodeInputs, language : LanguageInputs,
                 stdin : StdinInputs, status : {0, 200, 400, 500}, upstream : {0, 1},
                 sent : [language : UpstreamLanguages, file : {"Main.java", "main", "-"}]]
    /\ codeTab \in [CodeTabs -> [pc : {"idle", "write"}, exp : ExperimentIds \cup {NoId},
                                 existing : SubmissionIds \cup {NoId},
                                 code : CodeTexts \cup {Null},
                                 language : EditorLanguages \cup {Null},
                                 failed : ExperimentIds \cup {NoId},
                                 retried : BOOLEAN]]
    /\ mySubjects.pc \in {"idle", "reads", "done"}
    /\ mySubjects.subjectIds \subseteq Subjects
    /\ mySubjects.waiting \subseteq ParallelReads
    /\ mySubjects.subjectsRes \subseteq Subjects
    /\ mySubjects.experimentsRes \subseteq [id : ExperimentIds, subject_id : Subjects]
    /\ mySubjects.submissionsRes \subseteq
          [id : SubmissionIds, experiment_id : ExperimentIds, status : StatusValues]
    /\ DOMAIN mySubjects.subjects \subseteq Subjects
    /\ \A x \in DOMAIN mySubjects.subjects :
          mySubjects.subjects[x] \in [totalExperiments : Nat, submitted : Nat, evaluated : Nat]
    /\ evalTab \in [EvalTabs -> [pc : {"idle", "write", "status"},
                                 sub : SubmissionIds \cup {NoId},
                                 existing : EvaluationIds \cup {NoId}, marks : 0..100]]

\* ----------------------------------------------------------------- helpers
Min(S) == CHOOSE x \in S : \A y \in S : x <= y

FreeIds(pool, rows) == pool \ {r.id : r \in rows}

\* What lastOp keeps of a step: the statement or handler, the caller, the row
\* id, subject and principal the statement names, and the result.
Op(op, caller, id, subj, who, res) ==
    [op |-> op, caller |-> caller, id |-> id, subj |-> subj, who |-> who, res |-> res]

\* ------------------------------------------------- policy helper functions
\* is_admin testing for the wrong role.
is_admin_wrong_role(uid) == uid \in DOMAIN profiles /\ profiles[uid].role = "faculty"

is_admin(uid) == uid \in DOMAIN profiles /\ profiles[uid].role = "admin"

\* is_faculty_for_subject without the subject_id condition.
is_faculty_for_any_subject(uid, _subject_id) ==
    \E fs \in faculty_subjects : fs.faculty_id = uid

is_faculty_for_subject(uid, _subject_id) ==
    \E fs \in faculty_subjects : fs.faculty_id = uid /\ fs.subject_id = _subject_id

\* Defined by the migration and called by no policy.
is_student_for_subject(uid, _subject_id) ==
    \E ss \in student_subjects : ss.student_id = uid /\ ss.subject_id = _subject_id

\* ------------------------------------------------------- row-level policies
\* A policy takes the caller (auth.uid()) and the row it is evaluated on.
\* Row level security is enabled on every table: an action a table has no
\* policy for admits no row.
no_policy(uid, row) == FALSE

profiles_select(uid, row) == TRUE
profiles_update_own(uid, row) == row.id = uid \/ is_admin(uid)

subjects_select(uid, row) == TRUE
subjects_insert_admin(uid, row) == is_admin(uid)
subjects_update_admin(uid, row) == is_admin(uid)
subjects_delete_admin(uid, row) == is_admin(uid)

experiments_select(uid, row) == TRUE
experiments_insert(uid, row) == is_admin(uid) \/ is_faculty_for_subject(uid, row.subject_id)
experiments_update(uid, row) == is_admin(uid) \/ is_faculty_for_subject(uid, row.subject_id)
experiments_delete(uid, row) == is_admin(uid)

student_subjects_select(uid, row) ==
    is_admin(uid) \/ row.student_id = uid \/ is_faculty_for_subject(uid, row.subject_id)
student_subjects_insert(uid, row) == row.student_id = uid \/ is_admin(uid)
\* student_subjects_delete with the enrolled student let in.
student_subjects_delete_own(uid, row) == is_admin(uid) \/ row.student_id = uid

student_subjects_delete(uid, row) == is_admin(uid)

faculty_subjects_select(uid, row) == is_admin(uid) \/ row.faculty_id = uid
faculty_subjects_insert(uid, row) == is_admin(uid)
faculty_subjects_delete(uid, row) == is_admin(uid)

\* submissions_select with the join condition on the subject left out.
submissions_select_any_assignment(uid, row) ==
    \/ is_admin(uid)
    \/ row.student_id = uid
    \/ \E e \in experiments, fs \in faculty_subjects :
          e.id = row.experiment_id /\ fs.faculty_id = uid

submissions_select(uid, row) ==
    \/ is_admin(uid)
    \/ row.student_id = uid
    \/ \E e \in experiments, fs \in faculty_subjects :
          /\ e.subject_id = fs.subject_id
          /\ e.id = row.experiment_id
          /\ fs.faculty_id = uid
\* submissions_insert with the admin let in.
submissions_insert_or_admin(uid, row) == row.student_id = uid \/ is_admin(uid)

submissions_insert(uid, row) == row.student_id = uid
submissions_update(uid, row) == is_admin(uid) \/ row.student_id = uid

\* evaluations_select with the submission's id left out of the subquery.
evaluations_select_any_student(uid, row) ==
    \/ is_admin(uid)
    \/ row.faculty_id = uid
    \/ \E es \in experiment_submissions : es.student_id = uid

evaluations_select(uid, row) ==
    \/ is_admin(uid)
    \/ row.faculty_id = uid
    \/ \E es \in experiment_submissions :
          es.id = row.submission_id /\ es.student_id = uid
\* evaluations_insert with the join to the experiment's subject left out.
evaluations_insert_no_subject_join(uid, row) ==
    \/ is_admin(uid)
    \/ /\ row.faculty_id = uid
       /\ \E es \in experiment_submissions, fs \in faculty_subjects :
             es.id = row.submission_id /\ fs.faculty_id = uid

\* evaluations_insert admitting every row that names the caller as author.
evaluations_insert_own(uid, row) == is_admin(uid) \/ row.faculty_id = uid

evaluations_insert(uid, row) ==
    \/ is_admin(uid)
    \/ /\ row.faculty_id = uid
       /\ \E es \in experiment_submissions, e \in experiments, fs \in faculty_subjects :
             /\ es.experiment_id = e.id
             /\ e.subject_id = fs.subject_id
             /\ es.id = row.submission_id
             /\ fs.faculty_id = uid
evaluations_update(uid, row) == is_admin(uid) \/ row.faculty_id = uid

\* ------------------------------------------------------------ tab records
CodeTabUser(c) == "stu1"
EvalTabUser(t) == IF t = "ev1" THEN "fac1" ELSE "fac2"

IdleExec == [pc |-> "idle", method |-> "POST", body |-> "object", code |-> Undefined,
             language |-> Undefined, stdin |-> Undefined, status |-> 0, upstream |-> 0,
             sent |-> NoRequest]
\* MySubjects before its effect has run: no subject, loading.
IdleMySubjects == [pc |-> "idle", subjectIds |-> {}, waiting |-> {},
                   subjectsRes |-> {}, experimentsRes |-> {}, submissionsRes |-> {},
                   subjects |-> <<>>]
IdleCode == [pc |-> "idle", exp |-> NoId, existing |-> NoId, code |-> Null,
             language |-> Null, failed |-> NoId, retried |-> FALSE]
IdleEval == [pc |-> "idle", sub |-> NoId, existing |-> NoId, marks |-> 0]

\* The rows a select returns to the caller: those its select policy admits.
VisibleSubmissions(uid) == {r \in experiment_submissions : submissions_select(uid, r)}
VisibleEvaluations(uid) == {r \in evaluations : evaluations_select(uid, r)}

\* .maybeSingle(): the id of the single visible row, or null.
maybeSingle(rows) == IF Cardinality(rows) = 1 THEN (CHOOSE r \in rows : TRUE).id ELSE NoId

\* The tables without their UNIQUE constraints.
student_subjects_not_unique(row, rows) == TRUE
submissions_not_unique(row) == TRUE
evaluations_not_unique(row) == TRUE

\* Uniqueness constraints of the tables.
submissions_unique(row) ==
    ~ \E r \in experiment_submissions :
          r.experiment_id = row.experiment_id /\ r.student_id = row.student_id
evaluations_unique(row) ==
    ~ \E r \in evaluations : r.submission_id = row.submission_id
faculty_subjects_unique(row) == row \notin faculty_subjects
student_subjects_unique(row, rows) ==
    ~ \E r \in rows : r.student_id = row.student_id /\ r.subject_id = row.subject_id

\* Foreign keys of a new row resolve.
submissions_fk(row) ==
    /\ \E e \in experiments : e.id = row.experiment_id
    /\ row.student_id \in auth_users
experiments_fk(row) == row.subject_id \in subjects
student_subjects_fk(row) == row.student_id \in auth_users /\ row.subject_id \in subjects
faculty_subjects_fk(row) == row.faculty_id \in auth_users /\ row.subject_id \in subjects
evaluations_fk(row) ==
    /\ \E es \in experiment_submissions : es.id = row.submission_id
    /\ row.faculty_id \in auth_users

Init ==
    /\ auth_users = Users
    /\ subjects = Subjects
    /\ student_subjects = {[id |-> 1, student_id |-> "stu1", subject_id |-> "CS101"],
                           [id |-> 2, student_id |-> "stu1", subject_id |-> "CS102"]}
    /\ exec = IdleExec
    /\ profiles = [u \in Users |->
                     [role |-> IF u \in Admins THEN "admin"
                               ELSE IF u \in Faculty THEN "faculty" ELSE "student",
                      department |-> "CSE"]]
    /\ faculty_subjects = {}
    /\ experiments = {}
    /\ experiment_submissions = {}
    /\ evaluations = {}
    /\ codeTab = [c \in CodeTabs |-> IdleCode]
    /\ mySubjects = IdleMySubjects
    /\ evalTab = [t \in EvalTabs |-> IdleEval]
    /\ lastOp = Op("init", NoUser, NoId, NoSubject, NoUser, "ok")

\* ------------------------------------------------ identities and profiles
\* handle_new_user without the default of the department.
handle_new_user_no_department(role, department) ==
    [role |-> IF role # Null THEN role ELSE "student", department |-> department]

\* The row handle_new_user inserts for a new identity.
handle_new_user(role, department) ==
    [role |-> IF role # Null THEN role ELSE "student",
     department |-> IF department # Null THEN department ELSE "CSE"]

\* The insert of handle_new_user fails on a role text that is not an
\* app_role, on a department outside the CHECK list and on a taken key.
profiles_insert_ok(id, row) ==
    /\ row.role \in app_role
    /\ row.department \in Departments \cup {Null}
    /\ id \notin DOMAIN profiles

\* The identity provider inserts into auth.users and the trigger
\* on_auth_user_created runs in the same transaction: when the trigger
\* fails, no identity is created.
SignUp(id, role, department) ==
    LET row == handle_new_user(role, department)
        ok  == profiles_insert_ok(id, row)
    IN  /\ id \notin auth_users
        /\ auth_users' = IF ok THEN auth_users \cup {id} ELSE auth_users
        /\ profiles' = IF ok
                       THEN [u \in DOMAIN profiles \cup {id} |->
                                IF u = id THEN row ELSE profiles[u]]
                       ELSE profiles
        /\ lastOp' = Op("SignUp", NoUser, NoId, NoSubject, id, IF ok THEN "ok" ELSE "error")
        /\ UNCHANGED <<subjects, student_subjects, exec, mySubjects, faculty_subjects, experiments,
                       experiment_submissions, evaluations, codeTab, evalTab>>

\* update profiles set role = role where id = id: the row with that key when
\* the select policy and profiles_update_own both admit it.  The policy has
\* no WITH CHECK, so its USING expression is also applied to the new row, in
\* which id is unchanged; no column of the row is excluded from the update.
UpdateProfileRows(caller, id, role) ==
    [u \in DOMAIN profiles |->
        IF u = id /\ profiles_select(caller, [id |-> u]) /\ profiles_update_own(caller, [id |-> u])
        THEN [profiles[u] EXCEPT !.role = role] ELSE profiles[u]]

UpdateProfile(caller, id, role) ==
    LET hit == id \in DOMAIN profiles /\ profiles_update_own(caller, [id |-> id])
    IN  /\ caller \in auth_users
        /\ role \in app_role
        /\ profiles' = UpdateProfileRows(caller, id, role)
        /\ lastOp' = Op("profiles_update", caller, NoId, NoSubject, id,
                        IF hit THEN "ok" ELSE "none")
        /\ UNCHANGED <<auth_users, subjects, student_subjects, exec, mySubjects, faculty_subjects,
                       experiments, experiment_submissions, evaluations, codeTab, evalTab>>

\* ------------------------------------------------------ ON DELETE CASCADE
\* What is left of each table when the identities goneUsers, the subjects
\* goneSubjects, the experiments goneExperiments (ids) and the submissions
\* goneSubmissions (ids) are deleted.
profiles_on_delete(goneUsers) == [u \in DOMAIN profiles \ goneUsers |-> profiles[u]]

student_subjects_on_delete(goneUsers, goneSubjects) ==
    {r \in student_subjects : r.student_id \notin goneUsers /\ r.subject_id \notin goneSubjects}

faculty_subjects_on_delete(goneUsers, goneSubjects) ==
    {r \in faculty_subjects : r.faculty_id \notin goneUsers /\ r.subject_id \notin goneSubjects}

experiments_on_delete(goneSubjects, goneExperiments) ==
    {r \in experiments : r.subject_id \notin goneSubjects /\ r.id \notin goneExperiments}

\* experiment_submissions without the cascade from experiments.
submissions_on_delete_no_cascade(goneUsers, goneExperiments, goneSubmissions) ==
    {r \in experiment_submissions :
        r.student_id \notin goneUsers /\ r.id \notin goneSubmissions}

submissions_on_delete(goneUsers, goneExperiments, goneSubmissions) ==
    {r \in experiment_submissions :
        /\ r.student_id \notin goneUsers
        /\ r.experiment_id \notin goneExperiments
        /\ r.id \notin goneSubmissions}

evaluations_on_delete(goneUsers, goneSubmissions) ==
    {r \in evaluations : r.faculty_id \notin goneUsers /\ r.submission_id \notin goneSubmissions}

\* A delete with everything that follows from it.
Cascade(goneUsers, goneSubjects, goneExperiments, goneSubmissions) ==
    LET exps == experiments_on_delete(goneSubjects, goneExperiments)
        subs == submissions_on_delete(goneUsers, {r.id : r \in experiments \ exps},
                                      goneSubmissions)
    IN  /\ auth_users' = auth_users \ goneUsers
        /\ profiles' = profiles_on_delete(goneUsers)
        /\ subjects' = subjects \ goneSubjects
        /\ student_subjects' = student_subjects_on_delete(goneUsers, goneSubjects)
        /\ faculty_subjects' = faculty_subjects_on_delete(goneUsers, goneSubjects)
        /\ experiments' = exps
        /\ experiment_submissions' = subs
        /\ evaluations' = evaluations_on_delete(goneUsers,
                                                {r.id : r \in experiment_submissions \ subs})

\* The identity provider deletes an identity.
DeleteIdentity(id) ==
    /\ id \in auth_users
    /\ Cascade({id}, {}, {}, {})
    /\ lastOp' = Op("DeleteIdentity", NoUser, NoId, NoSubject, id, "ok")
    /\ UNCHANGED <<exec, mySubjects, codeTab, evalTab>>

\* delete from subjects where id = s
DeleteSubject(caller, s) ==
    LET hit == subjects_select(caller, [id |-> s]) /\ subjects_delete_admin(caller, [id |-> s])
    IN  /\ s \in subjects
        /\ Cascade({}, IF hit THEN {s} ELSE {}, {}, {})
        /\ lastOp' = Op("subjects_delete", caller, NoId, s, NoUser,
                        IF hit THEN "ok" ELSE "none")
        /\ UNCHANGED <<exec, mySubjects, codeTab, evalTab>>

\* delete from experiments where id = eid
DeleteExperiment(caller, eid) ==
    LET hit == {r \in experiments :
                   r.id = eid /\ experiments_select(caller, r) /\ experiments_delete(caller, r)}
    IN  /\ \E r \in experiments : r.id = eid
        /\ Cascade({}, {}, {r.id : r \in hit}, {})
        /\ lastOp' = Op("experiments_delete", caller, eid, NoSubject, NoUser,
                        IF hit # {} THEN "ok" ELSE "none")
        /\ UNCHANGED <<exec, mySubjects, codeTab, evalTab>>

\* delete from experiment_submissions where id = sid: the table has no
\* delete policy, so the statement finds no row it may delete.
DeleteSubmission(caller, sid) ==
    LET hit == {r \in experiment_submissions :
                   r.id = sid /\ submissions_select(caller, r) /\ no_policy(caller, r)}
    IN  /\ \E r \in experiment_submissions : r.id = sid
        /\ Cascade({}, {}, {}, {r.id : r \in hit})
        /\ lastOp' = Op("submissions_delete", caller, sid, NoSubject, NoUser,
                        IF hit # {} THEN "ok" ELSE "none")
        /\ UNCHANGED <<exec, mySubjects, codeTab, evalTab>>

\* ------------------------------------------------- AdminPanel: assignments
\* handleAssign: one insert into faculty_subjects; the faculty list holds the
\* profiles whose role is faculty.
handleAssign(caller, f, s) ==
    LET row == [faculty_id |-> f, subject_id |-> s]
        res == IF ~ faculty_subjects_insert(caller, row) THEN "denied"
               ELSE IF ~ faculty_subjects_unique(row) THEN "conflict"
               ELSE IF ~ faculty_subjects_fk(row) THEN "fk"
               ELSE "ok"
    IN  /\ f \in DOMAIN profiles /\ profiles[f].role = "faculty"
        /\ faculty_subjects' = IF res = "ok" THEN faculty_subjects \cup {row}
                               ELSE faculty_subjects
        /\ lastOp' = Op("handleAssign", caller, NoId, s, f, res)
        /\ UNCHANGED <<auth_users, subjects, student_subjects, exec, mySubjects, profiles, experiments, experiment_submissions, evaluations,
                       codeTab, evalTab>>

\* handleRemove: one delete by id of a listed row; a delete the policy does
\* not admit removes no row and reports no error.
handleRemove(caller, row) ==
    LET res == IF faculty_subjects_delete(caller, row) THEN "ok" ELSE "none"
    IN  /\ row \in faculty_subjects
        /\ faculty_subjects_select(caller, row)
        /\ faculty_subjects' = IF res = "ok" THEN faculty_subjects \ {row}
                               ELSE faculty_subjects
        /\ lastOp' = Op("handleRemove", caller, NoId, row.subject_id, row.faculty_id, res)
        /\ UNCHANGED <<auth_users, subjects, student_subjects, exec, mySubjects, profiles, experiments, experiment_submissions, evaluations,
                       codeTab, evalTab>>

\* ------------------------------------------- statements on student_subjects
\* insert into student_subjects of the rows of new, in order, on top of rows:
\* each row passes the insert policy and the unique index before the next
\* row is looked at; the statement stops at the first row that does not.
RECURSIVE student_subjects_insert_rows(_, _, _)
student_subjects_insert_rows(caller, new, rows) ==
    IF new = <<>> THEN [res |-> "inserted", rows |-> rows]
    ELSE LET free == FreeIds(EnrollmentIds, rows)
             row  == [id |-> IF free = {} THEN NoId ELSE Min(free),
                      student_id |-> Head(new).student_id,
                      subject_id |-> Head(new).subject_id]
         IN  IF ~ student_subjects_insert(caller, row) THEN [res |-> "denied", rows |-> rows]
             ELSE IF ~ student_subjects_unique(row, rows)
                  THEN [res |-> "conflict", rows |-> rows]
             ELSE IF free = {} THEN [res |-> "noid", rows |-> rows]
             ELSE student_subjects_insert_rows(caller, Tail(new), rows \cup {row})

\* The statement keeping the rows it had inserted when a later row fails.
student_subjects_insert_result_partial(caller, new) ==
    student_subjects_insert_rows(caller, new, student_subjects)

\* The statement as a whole: the foreign keys are checked when all rows are
\* in, and any error leaves the table as it was.
student_subjects_insert_result(caller, new) ==
    LET r == student_subjects_insert_rows(caller, new, student_subjects)
    IN  IF r.res # "inserted" THEN [res |-> r.res, rows |-> student_subjects]
        ELSE IF \E x \in r.rows \ student_subjects : ~ student_subjects_fk(x)
             THEN [res |-> "fk", rows |-> student_subjects]
        ELSE r

InsertEnrollment(caller, student, s) ==
    LET r == student_subjects_insert_result(caller, <<[student_id |-> student, subject_id |-> s]>>)
    IN  /\ r.res # "noid"
        /\ student_subjects' = r.rows
        /\ lastOp' = Op("student_subjects_insert", caller, NoId, s, student, r.res)
        /\ UNCHANGED <<auth_users, subjects, exec, mySubjects, profiles, faculty_subjects, experiments,
                       experiment_submissions, evaluations, codeTab, evalTab>>

\* delete from student_subjects where id = eid: the rows with that id that
\* the select and delete policies both admit.
DeleteEnrollment(caller, eid) ==
    LET hit == {r \in student_subjects :
                   r.id = eid /\ student_subjects_select(caller, r)
                              /\ student_subjects_delete(caller, r)}
    IN  /\ \E r \in student_subjects : r.id = eid
        /\ student_subjects' = student_subjects \ hit
        /\ lastOp' = Op("student_subjects_delete", caller, eid, NoSubject, NoUser,
                        IF hit # {} THEN "ok" ELSE "none")
        /\ UNCHANGED <<auth_users, subjects, exec, mySubjects, profiles, faculty_subjects, experiments,
                       experiment_submissions, evaluations, codeTab, evalTab>>

\* ------------------------------------------- SubjectEnrollment.handleSubmit
\* The selected subjects, in the order they were ticked, become one insert;
\* a subject of the list may have been deleted since the list was fetched.
\* The update of profiles that precedes it names a column the table does not
\* have, so it changes no row, and its result is not inspected.
handleSubmit(user, selectedSubjects) ==
    LET enrollments == [i \in 1..Len(selectedSubjects) |->
                           [student_id |-> user, subject_id |-> selectedSubjects[i]]]
        r == student_subjects_insert_result(user, enrollments)
    IN  /\ Len(selectedSubjects) # 0
        /\ \A i \in 1..Len(selectedSubjects), j \in 1..Len(selectedSubjects) :
              selectedSubjects[i] = selectedSubjects[j] => i = j
        /\ r.res # "noid"
        /\ student_subjects' = r.rows
        /\ lastOp' = Op("handleSubmit", user, NoId, NoSubject, user, r.res)
        /\ UNCHANGED <<auth_users, subjects, exec, mySubjects, profiles, faculty_subjects, experiments,
                       experiment_submissions, evaluations, codeTab, evalTab>>

\* ------------------------------------ AdminPanel: BulkEnrollStudents
\* handleBulkEnroll: the ticked students, or the ids typed as CSV (which may
\* repeat an id), become one insert for the selected subject.
handleBulkEnroll(caller, selectedSubject, ids) ==
    LET enrollments == [i \in 1..Len(ids) |->
                           [student_id |-> ids[i], subject_id |-> selectedSubject]]
        r == student_subjects_insert_result(caller, enrollments)
    IN  /\ Len(ids) # 0
        /\ r.res # "noid"
        /\ student_subjects' = r.rows
        /\ lastOp' = Op("handleBulkEnroll", caller, NoId, selectedSubject, NoUser, r.res)
        /\ UNCHANGED <<auth_users, subjects, exec, mySubjects, profiles, faculty_subjects, experiments,
                       experiment_submissions, evaluations, codeTab, evalTab>>

\* ------------------------------------------------- statements on experiments
InsertExperiment(caller, s) ==
    LET free == FreeIds(ExperimentIds, experiments)
        row  == [id |-> IF free = {} THEN NoId ELSE Min(free), subject_id |-> s]
        res  == IF ~ experiments_insert(caller, row) THEN "denied"
                ELSE IF ~ experiments_fk(row) THEN "fk"
                ELSE "ok"
    IN  /\ res = "ok" => free # {}
        /\ experiments' = IF res = "ok" THEN experiments \cup {row} ELSE experiments
        /\ lastOp' = Op("experiments_insert", caller, NoId, s, NoUser, res)
        /\ UNCHANGED <<auth_users, subjects, student_subjects, exec, mySubjects, profiles, faculty_subjects, experiment_submissions, evaluations,
                       codeTab, evalTab>>

\* ------------------------------------------- statements on submissions
\* update experiment_submissions set status = st where id = sid: the rows
\* with that id that the select and update policies both admit.
UpdateSubmissionRows(caller, sid, st) ==
    {IF r.id = sid /\ submissions_select(caller, r) /\ submissions_update(caller, r)
        THEN [r EXCEPT !.status = st] ELSE r
        : r \in experiment_submissions}

UpdateSubmission(caller, sid, st) ==
    LET hit == \E r \in experiment_submissions :
                  r.id = sid /\ submissions_select(caller, r) /\ submissions_update(caller, r)
    IN  /\ \E r \in experiment_submissions : r.id = sid
        /\ experiment_submissions' = UpdateSubmissionRows(caller, sid, st)
        /\ lastOp' = Op("submissions_update", caller, sid, NoSubject, NoUser,
                        IF hit THEN "ok" ELSE "none")
        /\ UNCHANGED <<auth_users, subjects, student_subjects, exec, mySubjects, profiles, faculty_subjects, experiments, evaluations,
                       codeTab, evalTab>>

\* Result of insert into experiment_submissions: policy, then unique, then keys.
submissions_insert_result(caller, row) ==
    IF ~ submissions_insert(caller, row) THEN "denied"
    ELSE IF ~ submissions_unique(row) THEN "conflict"
    ELSE IF ~ submissions_fk(row) THEN "fk"
    ELSE "inserted"

\* insert into experiment_submissions (experiment_id, student_id); code and
\* language stay null and status takes its default.
InsertSubmission(caller, e, student) ==
    LET free == FreeIds(SubmissionIds, experiment_submissions)
        row  == [id |-> IF free = {} THEN NoId ELSE Min(free),
                 experiment_id |-> e, student_id |-> student, code |-> Null,
                 language |-> Null, status |-> "submitted"]
        res  == submissions_insert_result(caller, row)
    IN  /\ res = "inserted" => free # {}
        /\ experiment_submissions' =
              IF res = "inserted" THEN experiment_submissions \cup {row}
              ELSE experiment_submissions
        /\ lastOp' = Op("submissions_insert", caller, e, NoSubject, student, res)
        /\ UNCHANGED <<auth_users, subjects, student_subjects, exec, mySubjects, profiles,
                       faculty_subjects, experiments, evaluations, codeTab, evalTab>>

\* --------------------------------------------- CodeEditorPage.submitCode
\* The experiments the page offers: those of the subjects the user's visible
\* enrollments name.
OfferedExperiments(uid) ==
    {x \in experiments :
        \E en \in student_subjects :
            /\ student_subjects_select(uid, en) /\ en.student_id = uid
            /\ en.subject_id \in subjects /\ en.subject_id = x.subject_id}

\* The update of submitCode writing the status alone.
UpdateSubmissionCode_status_only(caller, sid, code, language) ==
    {IF r.id = sid /\ submissions_select(caller, r) /\ submissions_update(caller, r)
        THEN [r EXCEPT !.status = "submitted"] ELSE r
        : r \in experiment_submissions}

\* update experiment_submissions set code, language, status = 'submitted'
\* where id = sid, on the rows the select and update policies both admit.
UpdateSubmissionCode(caller, sid, code, language) ==
    {IF r.id = sid /\ submissions_select(caller, r) /\ submissions_update(caller, r)
        THEN [r EXCEPT !.code = code, !.language = language, !.status = "submitted"]
        ELSE r
        : r \in experiment_submissions}

\* First await: select id where student_id = user and experiment_id = selected.
\* code and language are the editor's content when the button is pressed.
submitCode_check(c, e, code, language) ==
    LET user == CodeTabUser(c)
        found == maybeSingle({r \in VisibleSubmissions(user) :
                                r.student_id = user /\ r.experiment_id = e})
    IN  /\ codeTab[c].pc = "idle"
        /\ \E x \in OfferedExperiments(user) : x.id = e
        /\ codeTab' = [codeTab EXCEPT ![c] = [pc |-> "write", exp |-> e, existing |-> found,
                                              code |-> code, language |-> language,
                                              failed |-> codeTab[c].failed,
                                              retried |-> codeTab[c].retried]]
        /\ lastOp' = Op("submitCode_check", user, found, NoSubject, NoUser, "ok")
        /\ UNCHANGED <<auth_users, subjects, student_subjects, exec, mySubjects, profiles, faculty_subjects, experiments, experiment_submissions,
                       evaluations, evalTab>>

\* Second await: update by id when a row was found, insert otherwise.
submitCode_write(c) ==
    LET user == CodeTabUser(c)
        tab  == codeTab[c]
        free == FreeIds(SubmissionIds, experiment_submissions)
        row  == [id |-> IF free = {} THEN NoId ELSE Min(free),
                 experiment_id |-> tab.exp, student_id |-> user, code |-> tab.code,
                 language |-> tab.language, status |-> "submitted"]
        res  == IF tab.existing # NoId THEN "updated"
                ELSE submissions_insert_result(user, row)
        \* the page's history: the experiment whose last call threw the
        \* conflict, and whether the call now ending repeated such a call
        failed == IF res = "conflict" THEN tab.exp
                  ELSE IF tab.failed = tab.exp THEN NoId ELSE tab.failed
        retried == tab.failed = tab.exp
    IN  /\ tab.pc = "write"
        /\ res = "inserted" => free # {}
        /\ experiment_submissions' =
              IF tab.existing # NoId
              THEN UpdateSubmissionCode(user, tab.existing, tab.code, tab.language)
              ELSE IF res = "inserted" THEN experiment_submissions \cup {row}
              ELSE experiment_submissions
        /\ codeTab' = [codeTab EXCEPT ![c] = [IdleCode EXCEPT !.failed = failed, !.retried = retried]]
        /\ lastOp' = Op("submitCode", user, tab.exp, NoSubject, NoUser, res)
        /\ UNCHANGED <<auth_users, subjects, student_subjects, exec, mySubjects, profiles, faculty_subjects, experiments, evaluations, evalTab>>

\* ------------------------------------------ statements on evaluations
evaluations_check(row) == row.marks >= 0 /\ row.marks <= 100

evaluations_insert_result(caller, row) ==
    IF ~ evaluations_insert(caller, row) THEN "denied"
    ELSE IF ~ evaluations_check(row) THEN "check"
    ELSE IF ~ evaluations_unique(row) THEN "conflict"
    ELSE IF ~ evaluations_fk(row) THEN "fk"
    ELSE "inserted"

\* The update of marks also writing the caller as the author.
UpdateEvaluationRows_taking_authorship(caller, eid, m) ==
    {IF r.id = eid /\ evaluations_select(caller, r) /\ evaluations_update(caller, r)
        THEN [r EXCEPT !.marks = m, !.faculty_id = caller] ELSE r
        : r \in evaluations}

\* update evaluations set marks = m where id = eid: the rows with that id
\* that the select and update policies both admit.
UpdateEvaluationRows(caller, eid, m) ==
    {IF r.id = eid /\ evaluations_select(caller, r) /\ evaluations_update(caller, r)
        THEN [r EXCEPT !.marks = m] ELSE r
        : r \in evaluations}

InsertEvaluation(caller, sid, fid, m) ==
    LET free == FreeIds(EvaluationIds, evaluations)
        row  == [id |-> IF free = {} THEN NoId ELSE Min(free),
                 submission_id |-> sid, faculty_id |-> fid, marks |-> m, feedback |-> "Good"]
        res  == evaluations_insert_result(caller, row)
    IN  /\ res = "inserted" => free # {}
        /\ evaluations' = IF res = "inserted" THEN evaluations \cup {row} ELSE evaluations
        /\ lastOp' = Op("evaluations_insert", caller, sid, NoSubject, fid, res)
        /\ UNCHANGED <<auth_users, subjects, student_subjects, exec, mySubjects, profiles, faculty_subjects, experiments, experiment_submissions,
                       codeTab, evalTab>>

UpdateEvaluation(caller, eid, m) ==
    LET hit == \E r \in evaluations :
                  r.id = eid /\ evaluations_select(caller, r) /\ evaluations_update(caller, r)
    IN  /\ \E r \in evaluations : r.id = eid
        /\ evaluations' = UpdateEvaluationRows(caller, eid, m)
        /\ lastOp' = Op("evaluations_update", caller, eid, NoSubject, NoUser,
                        IF hit THEN "ok" ELSE "none")
        /\ UNCHANGED <<auth_users, subjects, student_subjects, exec, mySubjects, profiles, faculty_subjects, experiments, experiment_submissions,
                       codeTab, evalTab>>

\* update evaluations set submission_id = sid where id = eid.  The rows are
\* those the select and update policies admit; evaluations_update has no
\* WITH CHECK, so its USING expression is applied to the new row, whose
\* faculty_id is unchanged; then the unique constraint and the foreign key.
UpdateEvaluationSubmission(caller, eid, sid) ==
    LET hit  == {r \in evaluations :
                    r.id = eid /\ evaluations_select(caller, r) /\ evaluations_update(caller, r)}
        new  == {[r EXCEPT !.submission_id = sid] : r \in hit}
        rest == evaluations \ hit
        res  == IF hit = {} THEN "none"
                ELSE IF \E r \in new : ~ evaluations_update(caller, r) THEN "denied"
                ELSE IF \E r \in rest : r.submission_id = sid THEN "conflict"
                ELSE IF \A es \in experiment_submissions : es.id # sid THEN "fk"
                ELSE "ok"
    IN  /\ \E r \in evaluations : r.id = eid
        /\ evaluations' = IF res = "ok" THEN rest \cup new ELSE evaluations
        /\ lastOp' = Op("evaluations_repoint", caller, eid, NoSubject, NoUser, res)
        /\ UNCHANGED <<auth_users, subjects, student_subjects, exec, mySubjects, profiles, faculty_subjects,
                       experiments, experiment_submissions, codeTab, evalTab>>

\* ------------------------------------- FacultyEvaluate.submitEvaluation
\* The submissions the page lists: those of the experiments of the subjects
\* assigned to the user, as far as the select policy shows them.
ListedSubmissions(uid) ==
    {r \in VisibleSubmissions(uid) :
        \E e \in experiments, fs \in faculty_subjects :
            /\ faculty_subjects_select(uid, fs) /\ fs.faculty_id = uid
            /\ e.subject_id = fs.subject_id /\ e.id = r.experiment_id}

\* The range test of the handler's validation, with 101 let through.
marks_valid_upto_101(marksNum) == marksNum >= 0 /\ marksNum <= 101

\* The range test of the handler's validation.
marks_valid(marksNum) == ~ (marksNum < 0 \/ marksNum > 100)

\* Validation, then the first await: select id where submission_id = selected.
submitEvaluation_check(t, sid, m, fb) ==
    LET user  == EvalTabUser(t)
        valid == marks_valid(m) /\ fb # ""
        found == maybeSingle({r \in VisibleEvaluations(user) : r.submission_id = sid})
    IN  /\ evalTab[t].pc = "idle"
        /\ \E r \in ListedSubmissions(user) : r.id = sid
        /\ evalTab' = IF valid
                      THEN [evalTab EXCEPT ![t] = [pc |-> "write", sub |-> sid,
                                                   existing |-> found, marks |-> m]]
                      ELSE evalTab
        /\ lastOp' = Op("submitEvaluation_check", user, sid, NoSubject, NoUser,
                        IF ~ marks_valid(m) THEN "invalid"
                        ELSE IF fb = "" THEN "no_feedback" ELSE "ok")
        /\ UNCHANGED <<auth_users, subjects, student_subjects, exec, mySubjects, profiles, faculty_subjects, experiments, experiment_submissions,
                       evaluations, codeTab>>

\* The second await with the status flip done in the same statement.
submissions_flipped_with_write(sid, res) ==
    {IF r.id = sid /\ res = "inserted" THEN [r EXCEPT !.status = "evaluated"] ELSE r
        : r \in experiment_submissions}

\* What the second await does to experiment_submissions: it writes to
\* evaluations only.
submissions_after_write(sid, res) == experiment_submissions

\* Second await: update by id when a row was found, insert otherwise; an
\* error is thrown to the catch block and the handler ends.
submitEvaluation_write(t) ==
    LET user == EvalTabUser(t)
        tab  == evalTab[t]
        free == FreeIds(EvaluationIds, evaluations)
        row  == [id |-> IF free = {} THEN NoId ELSE Min(free),
                 submission_id |-> tab.sub, faculty_id |-> user,
                 marks |-> tab.marks, feedback |-> "Good"]
        res  == IF tab.existing # NoId THEN "updated"
                ELSE evaluations_insert_result(user, row)
    IN  /\ tab.pc = "write"
        /\ res = "inserted" => free # {}
        /\ evaluations' =
              IF tab.existing # NoId
              THEN UpdateEvaluationRows(user, tab.existing, tab.marks)
              ELSE IF res = "inserted" THEN evaluations \cup {row}
              ELSE evaluations
        /\ evalTab' = [evalTab EXCEPT ![t] =
                          IF res \in {"updated", "inserted"}
                          THEN [tab EXCEPT !.pc = "status", !.marks = 0]
                          ELSE IdleEval]
        /\ experiment_submissions' = submissions_after_write(tab.sub, res)
        /\ lastOp' = Op("submitEvaluation_write", user, tab.sub, NoSubject, NoUser, res)
        /\ UNCHANGED <<auth_users, subjects, student_subjects, exec, mySubjects, profiles,
                       faculty_subjects, experiments, codeTab>>

\* Third await: update experiment_submissions set status = 'evaluated'.  The
\* request reaches the datastore (delivered) or fails on its way; its result
\* is not inspected, so the handler ends the same way in both cases.
submitEvaluation_status(t, delivered) ==
    LET user == EvalTabUser(t)
        tab  == evalTab[t]
    IN  /\ tab.pc = "status"
        /\ experiment_submissions' =
              IF delivered THEN UpdateSubmissionRows(user, tab.sub, "evaluated")
              ELSE experiment_submissions
        /\ evalTab' = [evalTab EXCEPT ![t] = IdleEval]
        /\ lastOp' = Op("submitEvaluation", user, tab.sub, NoSubject, NoUser,
                        IF ~ delivered THEN "unsent"
                        ELSE IF tab.existing # NoId THEN "updated" ELSE "inserted")
        /\ UNCHANGED <<auth_users, subjects, student_subjects, exec, mySubjects, profiles, faculty_subjects, experiments, evaluations, codeTab>>

\* ------------------------------------------------- MySubjects.fetchData
\* relevantSubs without the filter on the subject's experiments.
relevantSubs_unfiltered(subExps, submissions) == submissions

\* submissions.filter((sub) => subExpIds.has(sub.experiment_id))
relevantSubs(subExps, submissions) ==
    {sub \in submissions : sub.experiment_id \in {e.id : e \in subExps}}

\* One element of mapped: the counts of the subject s.
SubjectWithProgress(s, exps, submissions) ==
    LET subExps == {e \in exps : e.subject_id = s}
        rel     == relevantSubs(subExps, submissions)
    IN  [totalExperiments |-> Cardinality(subExps),
         submitted |-> Cardinality({sub \in rel : sub.status = "submitted"}),
         evaluated |-> Cardinality({sub \in rel : sub.status = "evaluated"})]

\* First await: the user's enrollments.  With none the effect ends; else
\* the three reads are started together.
fetchData_enrollments(user) ==
    LET enrollments == {r \in student_subjects :
                           student_subjects_select(user, r) /\ r.student_id = user}
        subjectIds  == {r.subject_id : r \in enrollments}
    IN  /\ mySubjects.pc # "reads"
        /\ user \in auth_users
        /\ mySubjects' = IF enrollments = {}
                         THEN [IdleMySubjects EXCEPT !.pc = "done"]
                         ELSE [IdleMySubjects EXCEPT !.pc = "reads",
                                                     !.subjectIds = subjectIds,
                                                     !.waiting = ParallelReads]
        /\ lastOp' = Op("fetchData", user, NoId, NoSubject, NoUser, "enrollments")
        /\ UNCHANGED <<auth_users, subjects, student_subjects, exec, profiles,
                       faculty_subjects, experiments, experiment_submissions, evaluations,
                       codeTab, evalTab>>

\* One of the three reads of Promise.all is answered, each from the state
\* of its own moment; with the last answer the counts are computed and set.
fetchData_read(user, which) ==
    LET got == [mySubjects EXCEPT
                  !.waiting = @ \ {which},
                  !.subjectsRes =
                      IF which # "subjects" THEN @
                      ELSE {x \in subjects : subjects_select(user, [id |-> x])
                                               /\ x \in mySubjects.subjectIds},
                  !.experimentsRes =
                      IF which # "experiments" THEN @
                      ELSE {e \in experiments : experiments_select(user, e)
                                                  /\ e.subject_id \in mySubjects.subjectIds},
                  !.submissionsRes =
                      IF which # "submissions" THEN @
                      ELSE {[id |-> r.id, experiment_id |-> r.experiment_id,
                             status |-> r.status]
                              : r \in {x \in VisibleSubmissions(user) : x.student_id = user}}]
    IN  /\ mySubjects.pc = "reads"
        /\ which \in mySubjects.waiting
        /\ mySubjects' =
              IF got.waiting # {} THEN got
              ELSE [got EXCEPT !.pc = "done",
                               !.subjects = [x \in got.subjectsRes |->
                                               SubjectWithProgress(x, got.experimentsRes,
                                                                   got.submissionsRes)]]
        /\ lastOp' = Op("fetchData", user, NoId, NoSubject, NoUser, which)
        /\ UNCHANGED <<auth_users, subjects, student_subjects, exec, profiles,
                       faculty_subjects, experiments, experiment_submissions, evaluations,
                       codeTab, evalTab>>

\* subjects.reduce((a, s) => a + f(s), 0)
RECURSIVE reduce(_, _)
reduce(f, S) ==
    IF S = {} THEN 0
    ELSE LET x == CHOOSE y \in S : TRUE IN f[x] + reduce(f, S \ {x})

totalExps == reduce([x \in DOMAIN mySubjects.subjects |->
                        mySubjects.subjects[x].totalExperiments], DOMAIN mySubjects.subjects)
totalDone == reduce([x \in DOMAIN mySubjects.subjects |->
                        mySubjects.subjects[x].submitted + mySubjects.subjects[x].evaluated],
                    DOMAIN mySubjects.subjects)
\* Math.round((totalDone / totalExps) * 100), or 0.
overallProgress ==
    IF totalExps > 0 THEN (200 * totalDone + totalExps) \div (2 * totalExps) ELSE 0

\* ------------------------------------------------- execute-code: serve
\* A request arrives at the function.
receive(method, body, code, language, stdin) ==
    /\ exec.pc # "pending"
    /\ body = "invalid" => code = Undefined /\ language = Undefined /\ stdin = Undefined
    /\ exec' = [pc |-> "pending", method |-> method, body |-> body, code |-> code,
                language |-> language, stdin |-> stdin, status |-> 0, upstream |-> 0,
                sent |-> NoRequest]
    /\ lastOp' = Op("receive", NoUser, NoId, NoSubject, NoUser, "ok")
    /\ UNCHANGED <<auth_users, subjects, student_subjects, profiles, faculty_subjects,
                   experiments, experiment_submissions, evaluations, codeTab, evalTab,
                   mySubjects>>

\* The handler: the status it answers with and the number of requests it
\* sends upstream.  piston is what becomes of the upstream request: it is
\* answered, or the fetch or the parse of its answer throws.
serve_result(req, piston) ==
    IF req.method = "OPTIONS" THEN [status |-> 200, upstream |-> 0]
    ELSE IF req.body = "invalid" THEN [status |-> 500, upstream |-> 0]
    ELSE IF Falsy(req.code) \/ Falsy(req.language) THEN [status |-> 400, upstream |-> 0]
    ELSE IF req.language.type # "string" THEN [status |-> 500, upstream |-> 0]
    ELSE IF Lookup(toLowerCase(req.language.chars)) = "undefined"
         THEN [status |-> 400, upstream |-> 0]
    ELSE IF piston = "throws" THEN [status |-> 500, upstream |-> 1]
    ELSE [status |-> 200, upstream |-> 1]

\* language === "java" ? "Main.java" : "main", on the language of the body.
FileName(language) ==
    IF language = Str(<<"j", "a", "v", "a">>) THEN "Main.java" ELSE "main"

\* The body of the upstream request: the entry's language and one file.
upstream_request(req) ==
    [language |-> LangConfigLanguage(toLowerCase(req.language.chars)),
     file |-> FileName(req.language)]

serve(piston) ==
    LET r == serve_result(exec, piston)
    IN  /\ exec.pc = "pending"
        /\ exec' = [exec EXCEPT !.pc = "done", !.status = r.status, !.upstream = r.upstream,
                                !.sent = IF r.upstream = 1 THEN upstream_request(exec)
                                         ELSE NoRequest]
        /\ lastOp' = Op("serve", NoUser, r.status, NoSubject, NoUser, "ok")
        /\ UNCHANGED <<auth_users, subjects, student_subjects, profiles, faculty_subjects,
                       experiments, experiment_submissions, evaluations, codeTab, evalTab,
                       mySubjects>>

\* ----------------------------------------------------------- specifications
\* Spec, the workflow: the admin maintains assignments and the experiment,
\* the student submits from one tab, both faculty members evaluate from
\* their tabs, and the two callers the update policy admits set a
\* submission's status.
Next ==
    \/ \E caller \in Admins, f \in Faculty, s \in Subjects : handleAssign(caller, f, s)
    \/ \E caller \in Admins, row \in faculty_subjects : handleRemove(caller, row)
    \/ \E caller \in Admins : InsertExperiment(caller, "CS101")
    \/ \E caller \in Admins \cup Students, sid \in SubmissionIds, st \in StatusValues :
          UpdateSubmission(caller, sid, st)
    \/ \E e \in ExperimentIds : submitCode_check("ce1", e, "v1", "python")
    \/ submitCode_write("ce1")
    \/ \E t \in EvalTabs, sid \in SubmissionIds, m \in MarksInputs, fb \in FeedbackInputs :
          submitEvaluation_check(t, sid, m, fb)
    \/ \E t \in EvalTabs : submitEvaluation_write(t)
    \/ \E t \in EvalTabs, delivered \in BOOLEAN : submitEvaluation_status(t, delivered)

Spec == Init /\ [][Next]_vars

\* SpecCode, the student with two tabs of the code editor open.
NextCode ==
    \/ \E caller \in Admins, s \in Subjects : InsertExperiment(caller, s)
    \/ \E caller \in Admins \cup Students, sid \in SubmissionIds, st \in StatusValues :
          UpdateSubmission(caller, sid, st)
    \/ \E c \in CodeTabs, e \in ExperimentIds, code \in CodeTexts, language \in EditorLanguages :
          submitCode_check(c, e, code, language)
    \/ \E c \in CodeTabs : submitCode_write(c)

SpecCode == Init /\ [][NextCode]_vars

\* SpecPolicy, the statements any caller may send to the datastore.
NextPolicy ==
    \/ \E caller \in Users, f \in Faculty, s \in Subjects : handleAssign(caller, f, s)
    \/ \E caller \in Users, row \in faculty_subjects : handleRemove(caller, row)
    \/ \E caller \in Users, s \in Subjects : InsertExperiment(caller, s)
    \/ \E e \in ExperimentIds : submitCode_check("ce1", e, "v1", "python")
    \/ submitCode_write("ce1")
    \/ \E caller \in Users, sid \in SubmissionIds, fid \in Users :
          InsertEvaluation(caller, sid, fid, 100)
    \/ \E caller \in Users, eid \in EvaluationIds, m \in {0, 100} :
          UpdateEvaluation(caller, eid, m)

SpecPolicy == Init /\ [][NextPolicy]_vars

\* Batches of at most two rows.
Batches(S) == {<<x>> : x \in S} \cup {<<x, y>> : x \in S, y \in S}

\* SpecEnroll, the enrollment table: the two pages that enroll, and the
\* insert and delete statements any caller may send.
NextEnroll ==
    \/ \E caller \in Users, student \in {"stu1", "fac1", "stu2"}, s \in Subjects :
          InsertEnrollment(caller, student, s)
    \/ \E caller \in Users, eid \in EnrollmentIds : DeleteEnrollment(caller, eid)
    \/ \E sel \in Batches(Subjects) : handleSubmit("stu1", sel)
    \/ \E caller \in Admins \cup Students, s \in Subjects, ids \in Batches({"stu1", "stu2"}) :
          handleBulkEnroll(caller, s, ids)

SpecEnroll == Init /\ [][NextEnroll]_vars

\* SpecProvision, the identity provider creating and deleting identities.
NextProvision ==
    \/ \E id \in NewUsers, role \in RoleInputs, department \in DepartmentInputs :
          SignUp(id, role, department)
    \/ \E id \in NewUsers : DeleteIdentity(id)
    \/ \E caller \in {"adm", "fac1", "stu2"}, id \in {"fac1", "stu2"}, role \in app_role :
          UpdateProfile(caller, id, role)

\* SpecExec, requests to the execute-code function.
NextExec ==
    \/ \E method \in Methods, body \in BodyKinds, code \in CodeInputs,
          language \in LanguageInputs, stdin \in StdinInputs :
          receive(method, body, code, language, stdin)
    \/ \E piston \in {"answers", "throws"} : serve(piston)

SpecExec == Init /\ [][NextExec]_vars

SpecProvision == Init /\ [][NextProvision]_vars

\* SpecOwner, two students and the faculty: a second student signs up, and
\* every signed-in caller may send the statements on submissions.
NextOwner ==
    \/ SignUp("stu2", Null, Null)
    \/ \E caller \in Admins, fs \in {<<"fac1", "CS101">>, <<"fac2", "CS102">>} :
          handleAssign(caller, fs[1], fs[2])
    \/ \E caller \in Admins : InsertExperiment(caller, "CS101")
    \/ \E caller \in auth_users, e \in ExperimentIds, student \in {"stu1", "stu2"} :
          InsertSubmission(caller, e, student)
    \/ \E caller \in auth_users, sid \in SubmissionIds : UpdateSubmission(caller, sid, "draft")
    \/ \E caller \in Admins \cup Faculty, sid \in SubmissionIds :
          InsertEvaluation(caller, sid, caller, 100)

SpecOwner == Init /\ [][NextOwner]_vars

\* SpecAuthor, a faculty member writing and re-pointing its own Evaluations
\* while the admin assigns and removes it.
NextAuthor ==
    \/ SignUp("stu2", Null, Null)
    \/ \E caller \in Admins : handleAssign(caller, "fac1", "CS101")
    \/ \E caller \in Admins, row \in faculty_subjects : handleRemove(caller, row)
    \/ \E caller \in Admins : InsertExperiment(caller, "CS101")
    \/ \E caller \in {"stu1", "stu2"} \cap auth_users, e \in ExperimentIds :
          InsertSubmission(caller, e, caller)
    \/ \E caller \in Faculty, sid \in SubmissionIds : InsertEvaluation(caller, sid, caller, 100)
    \/ \E caller \in Faculty, eid \in EvaluationIds, sid \in SubmissionIds :
          UpdateEvaluationSubmission(caller, eid, sid)

SpecAuthor == Init /\ [][NextAuthor]_vars

\* SpecProgress, the MySubjects page of stu1 reading while experiments,
\* submissions, enrollments and subjects are inserted, updated and deleted.
NextProgress ==
    \/ fetchData_enrollments("stu1")
    \/ \E which \in ParallelReads : fetchData_read("stu1", which)
    \/ \E caller \in Admins, s \in Subjects : InsertExperiment(caller, s)
    \/ \E caller \in Admins, eid \in ExperimentIds : DeleteExperiment(caller, eid)
    \/ \E caller \in Admins : DeleteSubject(caller, "CS102")
    \/ \E caller \in Admins, eid \in EnrollmentIds : DeleteEnrollment(caller, eid)
    \/ \E e \in ExperimentIds : InsertSubmission("stu1", e, "stu1")
    \/ \E caller \in Admins \cup Students, sid \in SubmissionIds, st \in StatusValues :
          UpdateSubmission(caller, sid, st)

SpecProgress == Init /\ [][NextProgress]_vars

\* SpecReevaluate, two evaluators of one subject, the second of whom the
\* admin may promote to admin: fac1 grades with 100, fac2 with 0.
NextReevaluate ==
    \/ \E caller \in Admins, f \in Faculty : handleAssign(caller, f, "CS101")
    \/ \E caller \in Admins : InsertExperiment(caller, "CS101")
    \/ \E caller \in Admins : UpdateProfile(caller, "fac2", "admin")
    \/ \E e \in ExperimentIds : submitCode_check("ce1", e, "v1", "python")
    \/ submitCode_write("ce1")
    \/ \E sid \in SubmissionIds : submitEvaluation_check("ev1", sid, 100, "Good")
    \/ \E sid \in SubmissionIds : submitEvaluation_check("ev2", sid, 0, "Good")
    \/ \E t \in EvalTabs : submitEvaluation_write(t)
    \/ \E t \in EvalTabs, delivered \in BOOLEAN : submitEvaluation_status(t, delivered)

SpecReevaluate == Init /\ [][NextReevaluate]_vars

\* SpecLifecycle, rows and their parents: the pages insert while the admin
\* deletes subjects and experiments and the identity provider deletes
\* identities.
NextLifecycle ==
    \/ \E id \in {"stu1", "fac1"} : DeleteIdentity(id)
    \/ \E caller \in Admins \cup Faculty, s \in Subjects : DeleteSubject(caller, s)
    \/ \E caller \in Admins \cup Faculty, eid \in ExperimentIds : DeleteExperiment(caller, eid)
    \/ \E caller \in Admins \cup Students, sid \in SubmissionIds : DeleteSubmission(caller, sid)
    \/ \E caller \in Admins, s \in Subjects : handleAssign(caller, "fac1", s)
    \/ \E caller \in Admins \cup Faculty, s \in Subjects : InsertExperiment(caller, s)
    \/ \E sel \in Batches(Subjects) : handleSubmit("stu1", sel)
    \/ \E e \in ExperimentIds : submitCode_check("ce1", e, "v1", "python")
    \/ submitCode_write("ce1")
    \/ \E sid \in SubmissionIds : submitEvaluation_check("ev1", sid, 100, "Good")
    \/ submitEvaluation_write("ev1")
    \/ submitEvaluation_status("ev1", TRUE)

SpecLifecycle == Init /\ [][NextLifecycle]_vars

\* ------------------------------------------------------------------ claims
\* The policy table: Authorize(principal, action, resource type, row).  Row
\* level security is enabled on every table, so an action without a policy
\* is denied.
Authorize(uid, action, res, row) ==
    CASE res = "profile"    /\ action = "select" -> profiles_select(uid, row)
      [] res = "profile"    /\ action = "update" -> profiles_update_own(uid, row)
      [] res = "subject"    /\ action = "select" -> subjects_select(uid, row)
      [] res = "subject"    /\ action = "insert" -> subjects_insert_admin(uid, row)
      [] res = "subject"    /\ action = "update" -> subjects_update_admin(uid, row)
      [] res = "subject"    /\ action = "delete" -> subjects_delete_admin(uid, row)
      [] res = "experiment" /\ action = "select" -> experiments_select(uid, row)
      [] res = "experiment" /\ action = "insert" -> experiments_insert(uid, row)
      [] res = "experiment" /\ action = "update" -> experiments_update(uid, row)
      [] res = "experiment" /\ action = "delete" -> experiments_delete(uid, row)
      [] res = "enrollment" /\ action = "select" -> student_subjects_select(uid, row)
      [] res = "enrollment" /\ action = "insert" -> student_subjects_insert(uid, row)
      [] res = "enrollment" /\ action = "delete" -> student_subjects_delete(uid, row)
      [] res = "assignment" /\ action = "select" -> faculty_subjects_select(uid, row)
      [] res = "assignment" /\ action = "insert" -> faculty_subjects_insert(uid, row)
      [] res = "assignment" /\ action = "delete" -> faculty_subjects_delete(uid, row)
      [] res = "submission" /\ action = "select" -> submissions_select(uid, row)
      [] res = "submission" /\ action = "insert" -> submissions_insert(uid, row)
      [] res = "submission" /\ action = "update" -> submissions_update(uid, row)
      [] res = "evaluation" /\ action = "select" -> evaluations_select(uid, row)
      [] res = "evaluation" /\ action = "insert" -> evaluations_insert(uid, row)
      [] res = "evaluation" /\ action = "update" -> evaluations_update(uid, row)
      [] OTHER -> FALSE

Actions == {"select", "insert", "update", "delete"}
Resources == {"profile", "subject", "experiment", "enrollment", "assignment",
              "submission", "evaluation"}

\* The rows of a resource type an action may be asked about.
RowsOf(res) ==
    CASE res = "profile"    -> [id : Users]
      [] res = "subject"    -> [id : Subjects]
      [] res = "experiment" -> [id : ExperimentIds, subject_id : Subjects]
      [] res = "enrollment" -> [student_id : Users, subject_id : Subjects]
      [] res = "assignment" -> [faculty_id : Users, subject_id : Subjects]
      [] res = "submission" -> [id : SubmissionIds, experiment_id : ExperimentIds,
                                student_id : Users, status : StatusValues]
      [] res = "evaluation" -> [id : EvaluationIds, submission_id : SubmissionIds,
                                faculty_id : Users, marks : {0, 100}, feedback : {"Good"}]

\* The (resource, action) pairs no policy is written for.
NoPolicy == {<<"profile", "insert">>, <<"profile", "delete">>,
             <<"enrollment", "update">>, <<"assignment", "update">>,
             <<"submission", "delete">>, <<"evaluation", "delete">>}

\* The subject a submission id resolves to through its experiment, or none.
SubjectOfSubmission(sid) ==
    LET subs == {e.subject_id : e \in {x \in experiments :
                    \E es \in experiment_submissions :
                        es.id = sid /\ es.experiment_id = x.id}}
    IN  IF subs = {} THEN NoSubject ELSE CHOOSE u \in subs : TRUE

HasAssignment(uid, subj) == [faculty_id |-> uid, subject_id |-> subj] \in faculty_subjects

\* C1 as stated: an admin is authorized for every action on every resource
\* type.
C1_AdminEveryAction ==
    \A p \in Users : profiles[p].role = "admin" =>
        \A res \in Resources, action \in Actions : \A row \in RowsOf(res) :
            Authorize(p, action, res, row)

\* C1, amended: an admin is authorized for every action that has a policy,
\* on every row, except insert of a Submission, which is authorized exactly
\* when the new row's student is the admin itself; the actions without a
\* policy are denied to the admin.
C1_AdminEveryPolicy ==
    \A p \in Users : profiles[p].role = "admin" =>
        \A res \in Resources, action \in Actions : \A row \in RowsOf(res) :
            Authorize(p, action, res, row) <=>
                /\ <<res, action>> \notin NoPolicy
                /\ (res = "submission" /\ action = "insert") => row.student_id = p

\* An evaluation authored by a faculty member is stored and the admin may
\* update it, may not delete it.
C1_Witness ==
    \E row \in evaluations, p \in Users :
        /\ profiles[p].role = "admin" /\ row.faculty_id # p
        /\ Authorize(p, "update", "evaluation", row)
        /\ ~ Authorize(p, "delete", "evaluation", row)

StatusOf(rows, sid) == {r.status : r \in {x \in rows : x.id = sid}}

\* C2 as stated: when a faculty member assigned to the subject of a
\* submitted Submission has inserted the first Evaluation for it through
\* submitEvaluation, the Submission's stored status is evaluated once the
\* handler has completed with all its requests delivered.
C2_FirstEvaluationMarksEvaluated ==
    [][\A t \in EvalTabs :
          ( /\ evalTab[t].pc = "status" /\ evalTab'[t].pc = "idle"
            /\ lastOp'.res # "unsent"
            /\ evalTab[t].existing = NoId
            /\ ~ is_admin(EvalTabUser(t))
            /\ HasAssignment(EvalTabUser(t), SubjectOfSubmission(evalTab[t].sub))
            /\ StatusOf(experiment_submissions, evalTab[t].sub) = {"submitted"} )
          => StatusOf(experiment_submissions', evalTab[t].sub) = {"evaluated"}]_vars

\* C3 as stated, for the case it names: once a Submission's stored status is
\* evaluated, a resubmission by the owning student through submitCode does
\* not move it back to submitted.
C3_ResubmissionKeepsEvaluated ==
    [][\A r \in experiment_submissions :
          ( /\ r.status = "evaluated"
            /\ lastOp'.op = "submitCode"
            /\ ~ is_admin(lastOp'.caller) )
          => StatusOf(experiment_submissions', r.id) # {"submitted"}]_vars

\* C4 as stated: every faculty member with an Assignment edge to the subject
\* of a Submission may select its Evaluation, authored by it or not, and
\* every faculty member without that edge may not.
C4_EvaluationVisibleToAssignedFaculty ==
    \A row \in evaluations : \A f \in Users :
        (profiles[f].role = "faculty" /\ SubjectOfSubmission(row.submission_id) # NoSubject) =>
            (evaluations_select(f, row)
                <=> HasAssignment(f, SubjectOfSubmission(row.submission_id)))

EvaluationsOf(rows, sid) == {r \in rows : r.submission_id = sid}

\* C5: no Submission ever has two Evaluation rows.  A submitEvaluation call
\* of an authorized evaluator that takes the insert path inserts the row
\* when the Submission has none and fails with a conflict, changing nothing,
\* when it has one, so that exactly one row exists afterwards; a call that
\* takes the update path adds no row.
C5_OneEvaluationPerSubmission ==
    /\ [](\A sid \in SubmissionIds : Cardinality(EvaluationsOf(evaluations, sid)) <= 1)
    /\ [][\A t \in EvalTabs :
            (evalTab[t].pc = "write" /\ evalTab'[t].pc # "write") =>
                LET sid  == evalTab[t].sub
                    had  == EvaluationsOf(evaluations, sid) # {}
                    auth == HasAssignment(EvalTabUser(t), SubjectOfSubmission(sid))
                IN  IF evalTab[t].existing # NoId
                    THEN {r.id : r \in evaluations'} = {r.id : r \in evaluations}
                    ELSE auth =>
                           /\ lastOp'.res = (IF had THEN "conflict" ELSE "inserted")
                           /\ had => evaluations' = evaluations
                           /\ Cardinality(EvaluationsOf(evaluations', sid)) = 1]_vars

\* A second creation for the same Submission has failed with a conflict and
\* the Submission has its one Evaluation.
C5_Witness ==
    /\ lastOp.op = "submitEvaluation_write" /\ lastOp.res = "conflict"
    /\ Cardinality(EvaluationsOf(evaluations, lastOp.id)) = 1

SubmissionsOf(rows, e, u) == {r \in rows : r.experiment_id = e /\ r.student_id = u}

\* C6: no (experiment, student) pair ever has two Submission rows.  A
\* submitCode call that found no row at its existence check inserts the row
\* when the pair still has none and fails with a uniqueness conflict,
\* changing nothing, when another call has inserted it in between; so of two
\* first-time calls that both passed the check, one inserts and the other
\* conflicts.
C6_OneSubmissionPerPair ==
    /\ [](\A e \in ExperimentIds, u \in Users :
             Cardinality(SubmissionsOf(experiment_submissions, e, u)) <= 1)
    /\ [][\A c \in CodeTabs :
            (codeTab[c].pc = "write" /\ codeTab'[c].pc = "idle"
               /\ codeTab[c].existing = NoId) =>
                LET e   == codeTab[c].exp
                    u   == CodeTabUser(c)
                    had == SubmissionsOf(experiment_submissions, e, u) # {}
                IN  /\ lastOp'.res = (IF had THEN "conflict" ELSE "inserted")
                    /\ had => experiment_submissions' = experiment_submissions
                    /\ Cardinality(SubmissionsOf(experiment_submissions', e, u)) = 1]_vars

\* Both tabs passed the existence check before either inserted; the second
\* insert has failed with the conflict and the pair has its one row.
C6_Witness ==
    /\ lastOp.op = "submitCode" /\ lastOp.res = "conflict"
    /\ Cardinality(SubmissionsOf(experiment_submissions, lastOp.id, lastOp.caller)) = 1

\* C7: every Evaluation row a non-admin caller adds names the caller as its
\* faculty, and at the moment of the insert the caller has an Assignment
\* edge to the subject reached through submission -> experiment -> subject;
\* an edge to another subject does not admit the insert.
C7_EvaluationInsertNeedsAssignment ==
    [][\A r \in evaluations' :
          (r.id \notin {x.id : x \in evaluations} /\ ~ is_admin(lastOp'.caller)) =>
              /\ r.faculty_id = lastOp'.caller
              /\ SubjectOfSubmission(r.submission_id) # NoSubject
              /\ HasAssignment(lastOp'.caller, SubjectOfSubmission(r.submission_id))]_vars

\* A faculty member has inserted an Evaluation itself while a second faculty
\* member holds an edge to the other subject only.
C7_Witness ==
    /\ lastOp.op = "evaluations_insert" /\ lastOp.res = "inserted"
    /\ profiles[lastOp.caller].role = "faculty"
    /\ \E g \in Faculty \ {lastOp.caller} :
          /\ \E fs \in faculty_subjects : fs.faculty_id = g
          /\ ~ HasAssignment(g, SubjectOfSubmission(lastOp.id))

\* C8 as stated: after a non-admin caller's Assignment edge to the subject
\* that owns the Submission's Experiment is removed, the very next update of
\* the Evaluation by that caller is denied.
C8_UpdateDeniedAfterAssignmentRemoved ==
    [][( /\ lastOp.op = "handleRemove" /\ lastOp.res = "ok"
         /\ lastOp'.op = "evaluations_update"
         /\ lastOp'.caller = lastOp.who
         /\ ~ is_admin(lastOp'.caller)
         /\ \E r \in evaluations :
               r.id = lastOp'.id /\ SubjectOfSubmission(r.submission_id) = lastOp.subj )
       => lastOp'.res # "ok"]_vars

\* C9 as stated: whenever an Evaluation already exists for the Submission,
\* a submitEvaluation call of an authorized evaluator finds it and takes the
\* update path.
C9_ExistingEvaluationIsUpdated ==
    [][\A t \in EvalTabs :
          ( /\ evalTab[t].pc = "idle" /\ evalTab'[t].pc = "write"
            /\ HasAssignment(EvalTabUser(t), SubjectOfSubmission(evalTab'[t].sub))
            /\ EvaluationsOf(evaluations, evalTab'[t].sub) # {} )
          => evalTab'[t].existing # NoId]_vars

\* C10: an insert of an Experiment by a non-admin caller succeeds exactly
\* when, at the moment of the insert, the Assignment edge (caller, subject)
\* exists: it is denied before the edge is added, admitted right after, and
\* denied again right after the edge is removed.
C10_ExperimentInsertFollowsAssignment ==
    [][( lastOp'.op = "experiments_insert" /\ ~ is_admin(lastOp'.caller) ) =>
          /\ lastOp'.res = "ok" <=> HasAssignment(lastOp'.caller, lastOp'.subj)
          /\ lastOp'.res = "ok" <=>
                \E e \in experiments' \ experiments : e.subject_id = lastOp'.subj
          /\ lastOp'.res # "ok" => experiments' = experiments]_vars

\* A faculty member holding an edge to one subject only has been denied the
\* insert of an Experiment under the other subject.
C10_Witness ==
    /\ lastOp.op = "experiments_insert" /\ lastOp.res = "denied"
    /\ profiles[lastOp.caller].role = "faculty"
    /\ \E fs \in faculty_subjects : fs.faculty_id = lastOp.caller
    /\ ~ HasAssignment(lastOp.caller, lastOp.subj)

\* The subject an experiment id resolves to, or none.
SubjectOfExperiment(e) ==
    LET subs == {x.subject_id : x \in {y \in experiments : y.id = e}}
    IN  IF subs = {} THEN NoSubject ELSE CHOOSE u \in subs : TRUE

\* C11: a stored Submission is admitted by the select policy for a
\* non-admin caller exactly when the caller is its student or has an
\* Assignment edge to the subject of its experiment; so another student and
\* a faculty member assigned to other subjects only are not admitted.
C11_SubmissionReadableByOwnerOrAssigned ==
    \A row \in experiment_submissions : \A u \in DOMAIN profiles :
        ~ is_admin(u) =>
            (submissions_select(u, row)
                <=> \/ row.student_id = u
                    \/ HasAssignment(u, SubjectOfExperiment(row.experiment_id)))

\* The second student's Submission is stored; the first student may not
\* read it, the faculty member assigned to its subject may, and the faculty
\* member assigned to the other subject only may not.
C11_Witness ==
    \E row \in experiment_submissions :
        /\ row.student_id = "stu2"
        /\ ~ submissions_select("stu1", row)
        /\ \E f \in Faculty, g \in Faculty :
              /\ HasAssignment(f, SubjectOfExperiment(row.experiment_id))
              /\ submissions_select(f, row)
              /\ \E fs \in faculty_subjects : fs.faculty_id = g
              /\ ~ HasAssignment(g, SubjectOfExperiment(row.experiment_id))
              /\ ~ submissions_select(g, row)

\* C12: an insert of a Submission passes the insert policy exactly when the
\* caller is the student the new row names, so every row a caller adds
\* names the caller, admin or not; and every row an update changes belongs
\* to the caller or the caller is an admin.
C12_SubmissionWrittenByOwner ==
    [][/\ lastOp'.op = "submissions_insert" =>
            (lastOp'.res # "denied" <=> lastOp'.who = lastOp'.caller)
       /\ \A r \in experiment_submissions' :
            r.id \notin {x.id : x \in experiment_submissions} =>
                r.student_id = lastOp'.caller
       /\ \A r \in experiment_submissions :
            r \notin experiment_submissions' =>
                is_admin(lastOp'.caller) \/ r.student_id = lastOp'.caller]_vars

\* An admin's insert of a Submission for a student has been denied while
\* that student's own Submission is stored.
C12_Witness ==
    /\ lastOp.op = "submissions_insert" /\ lastOp.res = "denied"
    /\ is_admin(lastOp.caller) /\ lastOp.who = "stu2"
    /\ \E r \in experiment_submissions : r.student_id = "stu1"

EnrollmentsOf(rows, u, s) == {r \in rows : r.student_id = u /\ r.subject_id = s}

\* C13: no (student, subject) pair ever has two Enrollment rows.  An insert
\* of a pair whose student and subject exist, by a caller the policy admits,
\* succeeds when the pair has no row and fails with a uniqueness conflict,
\* changing nothing, when it has one; exactly one row exists afterwards.  An
\* insert of several rows by one of the pages adds all of them, each for a
\* pair that had no row, or none.
C13_OneEnrollmentPerPair ==
    /\ [](\A u \in Identities, s \in Subjects :
             Cardinality(EnrollmentsOf(student_subjects, u, s)) <= 1)
    /\ [][LET caller == lastOp'.caller
               u == lastOp'.who
               s == lastOp'.subj
           IN ( /\ lastOp'.op = "student_subjects_insert"
                /\ student_subjects_insert(caller, [student_id |-> u, subject_id |-> s])
                /\ u \in auth_users /\ s \in subjects ) =>
                LET had == EnrollmentsOf(student_subjects, u, s) # {}
                IN  /\ lastOp'.res = (IF had THEN "conflict" ELSE "inserted")
                    /\ had => student_subjects' = student_subjects
                    /\ Cardinality(EnrollmentsOf(student_subjects', u, s)) = 1]_vars
    /\ [][lastOp'.op \in {"handleSubmit", "handleBulkEnroll"} =>
            /\ lastOp'.res # "inserted" => student_subjects' = student_subjects
            /\ \A r \in student_subjects' \ student_subjects :
                  EnrollmentsOf(student_subjects, r.student_id, r.subject_id) = {}]_vars

\* A second insert of a pair has failed with the conflict and the pair has
\* its one row.
C13_Witness ==
    /\ lastOp.op = "student_subjects_insert" /\ lastOp.res = "conflict"
    /\ Cardinality(EnrollmentsOf(student_subjects, lastOp.who, lastOp.subj)) = 1

\* C14: every Enrollment row a step adds names the caller as its student or
\* the caller is an admin, and every Enrollment row a step removes is removed
\* by an admin; a non-admin caller's delete removes no row, its own included.
C14_EnrollmentBySelfOrAdmin ==
    [][/\ \A r \in student_subjects' \ student_subjects :
            r.student_id = lastOp'.caller \/ is_admin(lastOp'.caller)
       /\ \A r \in student_subjects \ student_subjects' : is_admin(lastOp'.caller)
       /\ (lastOp'.op = "student_subjects_delete" /\ ~ is_admin(lastOp'.caller)) =>
             lastOp'.res = "none"]_vars

\* A student's delete of its own Enrollment has removed nothing, while a
\* faculty member's Enrollment is stored next to it.
C14_Witness ==
    /\ lastOp.op = "student_subjects_delete" /\ lastOp.res = "none"
    /\ \E r \in student_subjects : r.id = lastOp.id /\ r.student_id = lastOp.caller
    /\ \E r \in student_subjects : r.student_id = "fac1"

\* C15: submitEvaluation called with marks -1 or 101 ends at its validation
\* and writes nothing: no Evaluation row is created or changed, no
\* Submission status changes and no write follows.  Called with marks 0 or
\* 100 it passes the range test, and the row it then inserts carries these
\* marks.  Every stored marks value is within 0..100.
C15_MarksWithinRange ==
    /\ [](\A r \in evaluations : r.marks >= 0 /\ r.marks <= 100)
    /\ [][\A t \in EvalTabs, sid \in SubmissionIds, fb \in FeedbackInputs :
            (lastOp'.op = "submitEvaluation_check" /\ lastOp'.id = sid) =>
            /\ \A m \in {-1, 101} :
                  submitEvaluation_check(t, sid, m, fb) =>
                      /\ lastOp'.res = "invalid"
                      /\ evaluations' = evaluations
                      /\ experiment_submissions' = experiment_submissions
                      /\ evalTab'[t].pc = "idle"
            /\ \A m \in {0, 100} :
                  submitEvaluation_check(t, sid, m, fb) =>
                      /\ lastOp'.res # "invalid"
                      /\ fb # "" => evalTab'[t].pc = "write" /\ evalTab'[t].marks = m]_vars
    /\ [][\A t \in EvalTabs :
            (lastOp'.res = "inserted" /\ submitEvaluation_write(t)) =>
                \E r \in evaluations' \ evaluations :
                    r.submission_id = evalTab[t].sub /\ r.marks = evalTab[t].marks]_vars

\* An evaluation with marks 100 is stored and a later call with marks out of
\* range has been rejected, leaving it as it was.
C15_Witness ==
    /\ lastOp.op = "submitEvaluation_check" /\ lastOp.res = "invalid"
    /\ \E r \in evaluations : r.submission_id = lastOp.id /\ r.marks = 100

\* C16: every sign-up that creates an identity adds exactly one profiles
\* row, keyed by the identity's id, and changes no other row; the row's role
\* is student when the event carries no role and its department is CSE when
\* the event carries no department.  Every identity has its profiles row.
C16_OneProfilePerIdentity ==
    /\ [](DOMAIN profiles = auth_users)
    /\ [][\A id \in NewUsers, role \in RoleInputs, department \in DepartmentInputs :
            (SignUp(id, role, department) /\ id \in auth_users') =>
                /\ id \notin DOMAIN profiles
                /\ DOMAIN profiles' = DOMAIN profiles \cup {id}
                /\ \A u \in DOMAIN profiles : profiles'[u] = profiles[u]
                /\ role = Null => profiles'[id].role = "student"
                /\ role # Null => profiles'[id].role = role
                /\ department = Null => profiles'[id].department = "CSE"
                /\ department # Null => profiles'[id].department = department]_vars

\* One identity was created with neither role nor department and has the
\* defaults, another with both and has what it asked for.
C16_Witness ==
    /\ lastOp.op = "SignUp" /\ lastOp.res = "ok"
    /\ \E a \in NewUsers, b \in NewUsers :
          /\ a \in auth_users /\ b \in auth_users
          /\ profiles[a] = [role |-> "student", department |-> "CSE"]
          /\ profiles[b] = [role |-> "faculty", department |-> "IT"]

\* C17: every Enrollment, Assignment, Submission and Evaluation row
\* references parents that exist: its identity in auth.users and its
\* subject, experiment or submission in their tables.
C17_RowsReferenceLiveParents ==
    /\ \A r \in student_subjects : r.student_id \in auth_users /\ r.subject_id \in subjects
    /\ \A r \in faculty_subjects : r.faculty_id \in auth_users /\ r.subject_id \in subjects
    /\ \A r \in experiment_submissions :
          /\ r.student_id \in auth_users
          /\ \E e \in experiments : e.id = r.experiment_id /\ e.subject_id \in subjects
    /\ \A r \in evaluations :
          /\ r.faculty_id \in auth_users
          /\ \E es \in experiment_submissions : es.id = r.submission_id

\* The experiment was deleted between the two awaits of submitCode, and the
\* insert has failed on its foreign key.
C17_Witness ==
    /\ lastOp.op = "submitCode" /\ lastOp.res = "fk"
    /\ experiment_submissions = {}

\* C18: the student of the Submission an Evaluation belongs to is admitted
\* by the Evaluation's select policy; a principal with role student that is
\* neither that student nor the Evaluation's faculty is not.
C18_EvaluationReadableByOwningStudent ==
    \A row \in evaluations : \A u \in DOMAIN profiles :
        LET owner == \E es \in experiment_submissions :
                        es.id = row.submission_id /\ es.student_id = u
        IN  /\ owner => evaluations_select(u, row)
            /\ (profiles[u].role = "student" /\ ~ owner /\ row.faculty_id # u) =>
                  ~ evaluations_select(u, row)

\* Both students have a Submission, the first student's is evaluated, and
\* the second student may not read that Evaluation.
C18_Witness ==
    \E row \in evaluations, mine \in experiment_submissions, other \in experiment_submissions :
        /\ mine.id = row.submission_id /\ mine.student_id = "stu1"
        /\ other.student_id = "stu2"
        /\ evaluations_select("stu1", row)
        /\ ~ evaluations_select("stu2", row)

\* A supported tag: a string that lower-cased is a key of LANGUAGE_MAP.
Supported(language) ==
    language.type = "string" /\ toLowerCase(language.chars) \in LANGUAGE_MAP

\* C19 as stated: a POST whose body lacks code or language, or has them
\* empty, or names a language that is not a supported tag, is answered with
\* status 400 and no request is sent upstream.
C19_BadRequestAnswered400 ==
    ( /\ exec.pc = "done" /\ exec.method = "POST" /\ exec.body = "object"
      /\ Falsy(exec.code) \/ Falsy(exec.language) \/ ~ Supported(exec.language) )
    => exec.status = 400 /\ exec.upstream = 0

\* C20: the step of submitEvaluation that inserts the Evaluation leaves every
\* Submission as it is, the status being written by the step after it; and
\* a Submission that has an Evaluation and the status submitted keeps that
\* status until a step that writes to experiment_submissions changes it.
C20_StatusFlipIsSecondWrite ==
    /\ [][\A t \in EvalTabs :
            (lastOp'.op = "submitEvaluation_write" /\ submitEvaluation_write(t)) =>
                experiment_submissions' = experiment_submissions]_vars
    /\ [][\A r \in experiment_submissions :
            ( /\ r.status = "submitted" /\ EvaluationsOf(evaluations, r.id) # {}
              /\ StatusOf(experiment_submissions', r.id) # {"submitted"} )
            => /\ lastOp'.op \in {"submissions_update", "submitCode", "submitEvaluation"}
               /\ lastOp'.res # "unsent"]_vars

\* The request of the status update was lost after the Evaluation had been
\* inserted: the handler has ended, the Evaluation is stored and the
\* Submission's status is still submitted.
C20_Witness ==
    /\ lastOp.op = "submitEvaluation" /\ lastOp.res = "unsent"
    /\ EvaluationsOf(evaluations, lastOp.id) # {}
    /\ StatusOf(experiment_submissions, lastOp.id) = {"submitted"}
    /\ \A t \in EvalTabs : evalTab[t].pc = "idle"

\* ------------------------------------------------------------ C21 .. C30

\* C21: a submitCode call that failed with the uniqueness conflict is
\* recovered by calling again: after the conflict the pair has its row, the
\* next call of the same student for the same experiment finds that row at
\* its existence check, takes the update path and succeeds, and afterwards
\* the pair has exactly one row, holding the code and language of the retry.
C21_ConflictThenRetryUpdates ==
    [][\A c \in CodeTabs :
         LET u == CodeTabUser(c)
         IN  /\ (codeTab[c].pc = "write" /\ codeTab'[c].pc = "idle"
                    /\ lastOp'.res = "conflict")
                 => /\ codeTab'[c].failed = codeTab[c].exp
                    /\ SubmissionsOf(experiment_submissions', codeTab[c].exp, u) # {}
             /\ (codeTab[c].pc = "idle" /\ codeTab'[c].pc = "write"
                    /\ codeTab[c].failed = codeTab'[c].exp)
                 => \E r \in SubmissionsOf(experiment_submissions, codeTab'[c].exp, u) :
                       codeTab'[c].existing = r.id
             /\ (codeTab[c].pc = "write" /\ codeTab'[c].pc = "idle"
                    /\ codeTab[c].failed = codeTab[c].exp)
                 => /\ lastOp'.res = "updated"
                    /\ codeTab'[c].failed = NoId
                    /\ SubmissionsOf(experiment_submissions', codeTab[c].exp, u)
                         = {[id |-> codeTab[c].existing, experiment_id |-> codeTab[c].exp,
                             student_id |-> u, code |-> codeTab[c].code,
                             language |-> codeTab[c].language, status |-> "submitted"]}]_vars

\* A call failed with the conflict against the other tab's row, the same
\* page called again with its own text and language, and the pair's one row
\* now holds them in place of the other tab's.
C21_Witness ==
    /\ lastOp.op = "submitCode" /\ lastOp.res = "updated"
    /\ \E c \in CodeTabs : codeTab[c].retried /\ codeTab[c].pc = "idle"
    /\ \E r \in SubmissionsOf(experiment_submissions, lastOp.id, lastOp.caller) :
          r.code = "v2" /\ r.language = "java"
    /\ Cardinality(SubmissionsOf(experiment_submissions, lastOp.id, lastOp.caller)) = 1

\* C22: an insert of an Evaluation by a caller who is not an admin, naming a
\* Submission that does not exist (so that no experiment and subject can be
\* resolved from it), is denied by the policy and leaves the Evaluations and
\* every Submission as they were.
C22_EvaluationOfMissingSubmissionDenied ==
    [][(/\ lastOp'.op = "evaluations_insert"
        /\ ~ is_admin(lastOp'.caller)
        /\ SubjectOfSubmission(lastOp'.id) = NoSubject)
       => /\ lastOp'.res = "denied"
          /\ evaluations' = evaluations
          /\ experiment_submissions' = experiment_submissions]_vars

\* A faculty member with an assignment, naming itself as author, has been
\* denied the insert of an Evaluation for a Submission id no row carries.
C22_Witness ==
    /\ lastOp.op = "evaluations_insert" /\ lastOp.res = "denied"
    /\ lastOp.caller \in Faculty /\ lastOp.who = lastOp.caller
    /\ \E fs \in faculty_subjects : fs.faculty_id = lastOp.caller
    /\ \A es \in experiment_submissions : es.id # lastOp.id
    /\ experiment_submissions # {}

\* C23: in every reachable state a Submission whose status is evaluated has
\* an Evaluation row.
C23_EvaluatedHasEvaluation ==
    \A r \in experiment_submissions :
        r.status = "evaluated" => EvaluationsOf(evaluations, r.id) # {}

\* C24: after provisioning, the role stored in a principal's profile changes
\* only by an update that an admin issues; a principal that is not an admin
\* does not become one by its own operations.
C24_RoleChangedOnlyByAdmin ==
    [][\A u \in DOMAIN profiles \cap DOMAIN profiles' :
          profiles'[u].role # profiles[u].role
          => lastOp'.op = "profiles_update" /\ is_admin(lastOp'.caller)]_vars

\* C25: no insert or update that a faculty member who is not an admin
\* performs leaves an Evaluation row, authored by that member and written by
\* the operation, whose Submission belongs to a subject the member was not
\* assigned to when the operation ran; an update of the member's own
\* Evaluation cannot re-point it to a Submission of an unassigned subject.
C25_AuthoredOnlyWhileAssigned ==
    [][(/\ lastOp'.op \in {"evaluations_insert", "evaluations_update", "evaluations_repoint"}
        /\ lastOp'.caller \in Users
        /\ ~ is_admin(lastOp'.caller))
       => \A r \in evaluations' \ evaluations :
             r.faculty_id = lastOp'.caller
             => HasAssignment(lastOp'.caller, SubjectOfSubmission(r.submission_id))]_vars

\* C26: every Submission is created by a principal that has, when the row
\* is inserted, an Enrollment edge to the subject of the Submission's
\* experiment; a caller without that Enrollment cannot create the row.
C26_SubmissionCreatedByEnrolled ==
    [][\A r \in experiment_submissions' :
          r.id \notin {x.id : x \in experiment_submissions}
          => is_student_for_subject(lastOp'.caller, SubjectOfExperiment(r.experiment_id))]_vars

\* The order of the status values.
StatusRank(st) == IF st = "draft" THEN 0 ELSE IF st = "submitted" THEN 1 ELSE 2

\* An Evaluation row without its marks and feedback.
EvaluationKey(r) == [id |-> r.id, submission_id |-> r.submission_id, faculty_id |-> r.faculty_id]

\* C27: when submitEvaluation takes the update path on an existing
\* Evaluation, its write changes at most marks and feedback: every row keeps
\* its id, submission_id and faculty_id, also when the caller is not the
\* row's author, and no row is added or removed; and the status update that
\* follows changes nothing but the status of Submissions, which it never
\* lowers.
C27_UpdatePathKeepsAuthorAndSubmission ==
    [][\A t \in EvalTabs :
         /\ (evalTab[t].pc = "write" /\ evalTab[t].existing # NoId
                /\ evalTab'[t].pc # "write")
             => /\ lastOp'.res = "updated"
                /\ {EvaluationKey(r) : r \in evaluations'} = {EvaluationKey(r) : r \in evaluations}
                /\ Cardinality(evaluations') = Cardinality(evaluations)
                /\ experiment_submissions' = experiment_submissions
         /\ (evalTab[t].pc = "status" /\ evalTab[t].existing # NoId
                /\ evalTab'[t].pc # "status")
             => /\ evaluations' = evaluations
                /\ \A r \in experiment_submissions :
                      \E n \in experiment_submissions' :
                          /\ [n EXCEPT !.status = r.status] = r
                          /\ StatusRank(n.status) >= StatusRank(r.status)
                /\ Cardinality(experiment_submissions') = Cardinality(experiment_submissions)]_vars

\* fac2, promoted to admin, has taken the update path on the Evaluation
\* that fac1 inserted with marks 100: the row carries fac2's marks 0 and
\* still names fac1 as its author, and the Submission is evaluated.
C27_Witness ==
    /\ lastOp.op = "submitEvaluation" /\ lastOp.res = "updated"
    /\ lastOp.caller = "fac2"
    /\ \E r \in evaluations :
          r.submission_id = lastOp.id /\ r.faculty_id = "fac1" /\ r.marks = 0
    /\ StatusOf(experiment_submissions, lastOp.id) = {"evaluated"}

\* The rows one call of a page asks for: handleSubmit of a user with the
\* ticked subjects, handleBulkEnroll for a subject with the listed students.
EnrollBatches ==
    {[op |-> "handleSubmit", caller |-> "stu1", subj |-> NoSubject,
      rows |-> [i \in 1..Len(sel) |-> [student_id |-> "stu1", subject_id |-> sel[i]]]]
        : sel \in {b \in Batches(Subjects) : Len(b) = 1 \/ b[1] # b[2]}}
    \cup
    {[op |-> "handleBulkEnroll", caller |-> c, subj |-> s,
      rows |-> [i \in 1..Len(ids) |-> [student_id |-> ids[i], subject_id |-> s]]]
        : c \in Admins \cup Students, s \in Subjects, ids \in Batches({"stu1", "stu2"})}

\* The step is the call b.
IsEnrollCall(b) ==
    /\ lastOp'.op = b.op /\ lastOp'.caller = b.caller /\ lastOp'.subj = b.subj
    /\ lastOp'.res = student_subjects_insert_result(b.caller, b.rows).res
    /\ student_subjects' = student_subjects_insert_result(b.caller, b.rows).rows

\* Some pair of the batch has a row already, or the caller may not insert it.
BatchTakenOrDenied(b) ==
    \E i \in 1..Len(b.rows) :
        \/ EnrollmentsOf(student_subjects, b.rows[i].student_id, b.rows[i].subject_id) # {}
        \/ ~ student_subjects_insert(b.caller, b.rows[i])

\* The batch names a pair twice, or a student or subject that does not exist.
BatchRepeatsOrDangles(b) ==
    \/ \E i, j \in 1..Len(b.rows) : i # j /\ b.rows[i] = b.rows[j]
    \/ \E i \in 1..Len(b.rows) :
          b.rows[i].student_id \notin auth_users \/ b.rows[i].subject_id \notin subjects

\* Every pair of the batch has exactly one row after the step, and the step
\* added one row per pair.
BatchCreated(b) ==
    /\ lastOp'.res = "inserted"
    /\ \A i \in 1..Len(b.rows) :
          Cardinality(EnrollmentsOf(student_subjects', b.rows[i].student_id,
                                    b.rows[i].subject_id)) = 1
    /\ Cardinality(student_subjects' \ student_subjects) = Len(b.rows)

BatchRefused(b) == lastOp'.res # "inserted" /\ student_subjects' = student_subjects

\* C28 as stated: a multi-row enrollment reports an error and creates no row
\* when some pair of the batch already exists or is not authorized, and
\* creates every pair of the batch otherwise.
C28_BatchAllOrNothingAsStated ==
    [][lastOp'.op \in {"handleSubmit", "handleBulkEnroll"} =>
         \A b \in EnrollBatches :
            IsEnrollCall(b) =>
               IF BatchTakenOrDenied(b) THEN BatchRefused(b) ELSE BatchCreated(b)]_vars

\* C28: a multi-row enrollment is all-or-nothing.  It reports an error and
\* creates no row when some pair of the batch already exists, is not
\* authorized, is named twice in the batch, or names a student or subject
\* that does not exist; otherwise it creates every pair of the batch.
C28_BatchAllOrNothing ==
    [][lastOp'.op \in {"handleSubmit", "handleBulkEnroll"} =>
         \A b \in EnrollBatches :
            IsEnrollCall(b) =>
               IF BatchTakenOrDenied(b) \/ BatchRepeatsOrDangles(b)
               THEN BatchRefused(b) ELSE BatchCreated(b)]_vars

\* A call of handleSubmit whose batch held a taken pair has been refused
\* with the conflict, and the student's other pair, free before the call,
\* has no row.
C28_Witness ==
    /\ lastOp.op = "handleSubmit" /\ lastOp.res = "conflict"
    /\ EnrollmentsOf(student_subjects, "stu1", "CS101") = {}
    /\ EnrollmentsOf(student_subjects, "stu1", "CS102") # {}

\* C29: for every language the execute-code handler accepts, the one file
\* of the upstream request is named Main.java exactly when the upstream
\* language the handler resolved is java, and main otherwise.
C29_MainJavaExactlyForJava ==
    (exec.pc = "done" /\ exec.upstream = 1)
    => /\ exec.sent.file \in {"Main.java", "main"}
       /\ exec.sent.file = "Main.java" <=> exec.sent.language = "java"

\* C30: in the summary MySubjects shows, every subject's submitted plus
\* evaluated is at most its totalExperiments, so the pending count is not
\* negative and the progress is at most 100, whichever states the three
\* parallel reads were answered from.
C30_DoneWithinTotal ==
    mySubjects.pc = "done"
    => /\ \A x \in DOMAIN mySubjects.subjects :
             mySubjects.subjects[x].submitted + mySubjects.subjects[x].evaluated
                <= mySubjects.subjects[x].totalExperiments
       /\ totalExps - totalDone >= 0
       /\ overallProgress <= 100

\* The reads were answered from different states: the submissions read
\* returned a counted Submission of an experiment that the experiments read
\* did not return, and the summary shows no experiment and nothing done.
C30_Witness ==
    /\ mySubjects.pc = "done"
    /\ DOMAIN mySubjects.subjects # {}
    /\ \E r \in mySubjects.submissionsRes :
          /\ r.status \in {"submitted", "evaluated"}
          /\ \A e \in mySubjects.experimentsRes : e.id # r.experiment_id
    /\ totalExps = 0 /\ totalDone = 0

=============================================================================
